---------------------------- MODULE Spec2Model ----------------------------
(***************************************************************************)
(* A model of pylandsat: the catalog database (sync_catalog, sync_wrs),    *)
(* the catalog service (Catalog.search, Catalog.wrs, Catalog.metadata),    *)
(* the query builder (_format_placeholders), the product identifier parser *)
(* (meta_from_pid) and the radiometric conversions of a Band.              *)
(*                                                                         *)
(* Conventions.  A Python value is a record [t |-> type, v |-> value].     *)
(* A str that the code indexes or slices (a product identifier, a sensor   *)
(* or tier name, a band name) is a sequence of one-character strings.      *)
(* A naive datetime is [day |-> days since 1970-01-01, sec |-> second of   *)
(* the day]; the local time zone is taken to be UTC.  A 'YYYY-MM-DD' string*)
(* is represented by the ordinal of the day it names.  A geometry is       *)
(* [kind |-> WKT type name, pts |-> the set of unit cells of a line it     *)
(* covers]; its WKT text is represented by the same record.                *)
(***************************************************************************)
EXTENDS Integers, Sequences, FiniteSets, TLC

VARIABLES
    tables,     \* names of the tables that exist in landsat.db
    catalog,    \* rows of table catalog, in insertion (rowid) order
    wrs,        \* rows of table wrs, in insertion (rowid) order
    pc,         \* "idle", or "returned" while the caller holds a result
    call,       \* the operation last called, with its arguments
    result,     \* what the call returned or raised
    issued,     \* the query templates the call handed to LandsatDB.query
    main,       \* Catalog.search: the records before the SLC-off filter
    bIn,        \* query builder: the template and parameters it is given
    bOut,       \* query builder: the built query and the flattened parameters
    pidIn,      \* download: the product identifier a Product is made for
    product,    \* download: the Product made (its meta and base URL), or the error
    band,       \* scene: the Band object at hand
    conv,       \* scene: the last conversion asked of the band
    resIn,      \* band resolver: the function applied and its arguments
    resOut,     \* band resolver: what it returned or raised
    dl,         \* download: the download call and its outcome
    outdir,     \* download: the directories and files under out_dir
    cliIn,      \* command line: the options of `pylandsat search`
    cliOut,     \* command line: the arguments handed to Catalog.search, or the error
    mtlFile,    \* scene: the lines of the MTL file of the scene directory
    sceneObj,   \* scene: the Scene constructed from it, or the error
    qIn,        \* LandsatDB.query: the call last made
    qOut,       \* LandsatDB.query: what it returned or raised
    conns,      \* LandsatDB.query: every connection opened, "open" or "closed"
    localFile,  \* download_file: the file at fpath, if any, and its bytes
    fetch       \* download_file: the call last made and its outcome

dbVars == <<tables, catalog, wrs>>
callVars == <<pc, call, result, issued, main>>
catalogVars == <<tables, catalog, wrs, pc, call, result, issued, main>>
builderVars == <<bIn, bOut>>
productVars == <<pidIn, product>>
bandVars == <<band, conv>>
resolverVars == <<resIn, resOut>>
downloadVars == <<dl, outdir>>
cliVars == <<cliIn, cliOut>>
sceneVars == <<mtlFile, sceneObj>>
queryVars == <<qIn, qOut, conns>>
fileVars == <<localFile, fetch>>
vars ==
    <<tables, catalog, wrs, pc, call, result, issued, main, bIn, bOut,
      pidIn, product, band, conv, resIn, resOut, dl, outdir, cliIn, cliOut,
      mtlFile, sceneObj, qIn, qOut, conns, localFile, fetch>>

\* What the operations of one component leave alone: the other components.
exceptCatalog ==
    <<builderVars, productVars, bandVars, resolverVars, downloadVars, cliVars, sceneVars,
      queryVars, fileVars>>
exceptBuilder ==
    <<catalogVars, productVars, bandVars, resolverVars, downloadVars, cliVars, sceneVars,
      queryVars, fileVars>>
exceptProduct ==
    <<catalogVars, builderVars, bandVars, resolverVars, cliVars, sceneVars,
      queryVars, fileVars>>
exceptBand ==
    <<catalogVars, builderVars, productVars, resolverVars, downloadVars, cliVars, sceneVars,
      queryVars, fileVars>>
exceptResolver ==
    <<catalogVars, builderVars, productVars, bandVars, downloadVars, cliVars, sceneVars,
      queryVars, fileVars>>
exceptCli ==
    <<catalogVars, builderVars, productVars, bandVars, resolverVars, downloadVars, sceneVars,
      queryVars, fileVars>>
exceptQuery ==
    <<builderVars, productVars, bandVars, resolverVars, downloadVars, cliVars, sceneVars,
      fileVars>>
exceptFile ==
    <<catalogVars, builderVars, productVars, bandVars, resolverVars, downloadVars, cliVars,
      sceneVars, queryVars>>
exceptScene ==
    <<catalogVars, builderVars, productVars, bandVars, resolverVars, downloadVars, cliVars,
      queryVars, fileVars>>

(***************************************************************************)
(* Python values                                                           *)
(***************************************************************************)
PyNone == [t |-> "none"]
PyInt(n) == [t |-> "int", v |-> n]
PyFloat(n) == [t |-> "float", v |-> n]
PyStr(s) == [t |-> "str", v |-> s]
PyList(s) == [t |-> "list", v |-> s]
PyTuple(s) == [t |-> "tuple", v |-> s]
PyBool(b) == [t |-> "bool", v |-> b]
PyDatetime(day, sec) == [t |-> "datetime", v |-> [day |-> day, sec |-> sec]]
PyGeom(g) == [t |-> "geom", v |-> g]

\* Python truth value of x, as `if x` and `not x` test it.
Truthy(x) ==
    CASE x.t = "none" -> FALSE
      [] x.t \in {"int", "float"} -> x.v # 0
      [] x.t \in {"list", "tuple"} -> x.v # <<>>
      [] x.t = "bool" -> x.v
      [] OTHER -> TRUE

Ok(v) == [status |-> "ok", value |-> v]
Raise(e) == [status |-> "error", exc |-> e]

(***************************************************************************)
(* Text pieces                                                             *)
(***************************************************************************)
U == <<"_">>
LC08 == <<"L", "C", "0", "8">>
LE07 == <<"L", "E", "0", "7">>
LT05 == <<"L", "T", "0", "5">>
LT04 == <<"L", "T", "0", "4">>
LM05 == <<"L", "M", "0", "5">>
LM04 == <<"L", "M", "0", "4">>
LM03 == <<"L", "M", "0", "3">>
LM02 == <<"L", "M", "0", "2">>
LM01 == <<"L", "M", "0", "1">>
T1 == <<"T", "1">>
T2 == <<"T", "2">>
RT == <<"R", "T">>
L1TP == <<"L", "1", "T", "P">>
L1GT == <<"L", "1", "G", "T">>
L1GS == <<"L", "1", "G", "S">>

\* catalog.py: SENSORS and TIERS
SENSORS == <<LC08, LE07, LT05, LT04, LM05, LM04, LM03, LM02, LM01>>
TIERS == <<T1, T2, RT>>

(***************************************************************************)
(* Time                                                                    *)
(***************************************************************************)
SecondsPerDay == 86400

\* datetime.timestamp() of a naive datetime, truncated by int()
timestamp(dt) == dt.day * SecondsPerDay + dt.sec

\* datetime.fromtimestamp(ts)
fromtimestamp(ts) == [day |-> ts \div SecondsPerDay, sec |-> ts % SecondsPerDay]

\* dt1 >= dt2 on datetimes
DtGE(dt1, dt2) == dt1.day > dt2.day \/ (dt1.day = dt2.day /\ dt1.sec >= dt2.sec)

\* _slc_on: FAILURE = datetime(2003, 5, 31), 12203 days after 1970-01-01
FailureDay == 12203
FAILURE == [day |-> FailureDay, sec |-> 0]

\* The calendar days the model uses: 2003-05-30, 2003-05-31, 2003-06-01.
D20030530 == FailureDay - 1
D20030531 == FailureDay
D20030601 == FailureDay + 1

\* datetime.strptime(s, '%Y-%m-%d'): the named day at 00:00:00, or ValueError
\* for a string that names no day (ordinal -1).
strptime(s) == IF s.v < 0 THEN Raise("ValueError") ELSE Ok([day |-> s.v, sec |-> 0])

(***************************************************************************)
(* Geometry                                                                *)
(***************************************************************************)
Geom(kind, pts) == [kind |-> kind, pts |-> pts]

\* wkt.dumps(geom, rounding_precision=8) and wkt.loads: the text carries the
\* type name and the coordinates.
wkt_dumps(g) == PyStr(g)
wkt_loads(w) == w

\* SpatiaLite Intersects(g1, g2)
Intersects(g1, g2) == g1.pts \cap g2.pts # {}

Min(S) == CHOOSE m \in S : \A n \in S : m <= n
Max(S) == CHOOSE m \in S : \A n \in S : m >= n

\* The SpatialIndex subquery: rows whose bounding box meets the search frame.
SpatialIndex(g, frame) ==
    /\ g.pts # {} /\ frame.pts # {}
    /\ Min(g.pts) <= Max(frame.pts) /\ Min(frame.pts) <= Max(g.pts)

\* 'POLYGON' in geom_wkt
HasPOLYGON(w) == w.v.kind \in {"POLYGON", "MULTIPOLYGON"}

\* shapely: geom.intersection(footprint).area and geom.area
area(g) == IF g.kind \in {"POLYGON", "MULTIPOLYGON"} THEN Cardinality(g.pts) ELSE 0
intersection(g1, g2) == Geom(g1.kind, g1.pts \cap g2.pts)

(***************************************************************************)
(* Sequences and digit strings                                             *)
(***************************************************************************)
SeqMap(f(_), s) == [i \in 1..Len(s) |-> f(s[i])]
Range(s) == {s[i] : i \in 1..Len(s)}

RECURSIVE Concat(_)
\* The concatenation of a sequence of sequences.
Concat(ss) == IF ss = <<>> THEN <<>> ELSE Head(ss) \o Concat(Tail(ss))

DigitValue(c) ==
    CASE c = "0" -> 0 [] c = "1" -> 1 [] c = "2" -> 2 [] c = "3" -> 3
      [] c = "4" -> 4 [] c = "5" -> 5 [] c = "6" -> 6 [] c = "7" -> 7
      [] c = "8" -> 8 [] c = "9" -> 9

RECURSIVE int(_)
\* Python int(s) of a string of decimal digits
int(s) ==
    IF s = <<>> THEN 0
    ELSE int(SubSeq(s, 1, Len(s) - 1)) * 10 + DigitValue(s[Len(s)])

(***************************************************************************)
(* The database: sync_catalog and sync_wrs                                 *)
(***************************************************************************)
\* _parse_datestring: the ISO-8601 text of the index file to a timestamp
_parse_datestring(datestring) == timestamp(datestring)

\* _parse_row: (product_id, scene_id, path, row, sensing_time, cloud_cover)
_parse_row(r) ==
    [product_id |-> r.product_id, scene_id |-> r.scene_id,
     path |-> int(r.path), row |-> int(r.row),
     sensing_time |-> _parse_datestring(r.sensing_time),
     cloud_cover |-> int(r.cloud_cover)]

\* CATALOG_UPDATE on a table without the primary key: every row is added.
CATALOG_UPDATE_NoKey(table, rec) == Append(table, rec)

\* CATALOG_UPDATE as INSERT OR REPLACE: the row of the same product_id is
\* deleted and the new one added.
CATALOG_UPDATE_Replace(table, rec) ==
    Append(SelectSeq(table, LAMBDA old : old.product_id # rec.product_id), rec)

\* CATALOG_UPDATE with product_id TEXT PRIMARY KEY NOT NULL: INSERT OR IGNORE
CATALOG_UPDATE(table, rec) ==
    IF \E i \in 1..Len(table) : table[i].product_id = rec.product_id
    THEN table
    ELSE Append(table, rec)

RECURSIVE ImportCatalog(_, _)
\* sync_catalog's loop over the rows of index.csv
ImportCatalog(table, rows) ==
    IF rows = <<>> THEN table
    ELSE IF Head(rows).product_id # <<>>
         THEN ImportCatalog(CATALOG_UPDATE(table, _parse_row(Head(rows))), Tail(rows))
         ELSE ImportCatalog(table, Tail(rows))

\* WRS_UPDATE with PRIMARY KEY (path, row): INSERT OR IGNORE
WRS_UPDATE(table, rec) ==
    IF \E i \in 1..Len(table) : table[i].path = rec.path /\ table[i].row = rec.row
    THEN table
    ELSE Append(table, rec)

RECURSIVE ImportWrs(_, _)
\* sync_wrs: executemany(WRS_UPDATE, values)
ImportWrs(table, feats) ==
    IF feats = <<>> THEN table
    ELSE ImportWrs(WRS_UPDATE(table, [path |-> Head(feats).PATH,
                                      row |-> Head(feats).ROW,
                                      geom |-> wkt_loads(wkt_dumps(Head(feats).geometry).v)]),
                   Tail(feats))

(***************************************************************************)
(* The files the synchronisations download                                 *)
(***************************************************************************)
Pid(sensor, corr, pathrow, acq, proc, coll, tier) ==
    Concat(<<sensor, U, corr, U, pathrow, U, acq, U, proc, U, coll, U, tier>>)

P195049 == <<"1", "9", "5", "0", "4", "9">>
P195050 == <<"1", "9", "5", "0", "5", "0">>
P196049 == <<"1", "9", "6", "0", "4", "9">>
A20030530 == <<"2", "0", "0", "3", "0", "5", "3", "0">>
A20030531 == <<"2", "0", "0", "3", "0", "5", "3", "1">>
A20030601 == <<"2", "0", "0", "3", "0", "6", "0", "1">>
A20160927 == <<"2", "0", "1", "6", "0", "9", "2", "7">>
Coll01 == <<"0", "1">>

PidA1 == Pid(LE07, L1TP, P195049, A20030530, A20160927, Coll01, T1)
PidA2 == Pid(LE07, L1TP, P195049, A20030531, A20160927, Coll01, T1)
PidA3 == Pid(LE07, L1TP, P195050, A20030531, A20160927, Coll01, T2)
PidA4 == Pid(LT05, L1TP, P195049, A20030531, A20160927, Coll01, T1)
PidA5 == Pid(LT05, L1GS, P196049, A20030601, A20160927, Coll01, T2)
PidB1 == Pid(LE07, L1TP, P195049, A20030601, A20030601, Coll01, RT)

CsvRow(pid, sid, path, row, day, sec, cc) ==
    [product_id |-> pid, scene_id |-> sid, path |-> path, row |-> row,
     sensing_time |-> [day |-> day, sec |-> sec], cloud_cover |-> cc]

N195 == <<"1", "9", "5">>
N196 == <<"1", "9", "6">>
N49 == <<"4", "9">>
N50 == <<"5", "0">>
Morning == 10 * 3600

\* Two editions of index.csv.  The second repeats a product of the first with
\* another cloud cover and adds a real-time product.
CsvA ==
    << CsvRow(PidA1, "s1", N195, N49, D20030530, Morning, <<"1", "0">>),
       CsvRow(PidA2, "s2", N195, N49, D20030531, 0, <<"0">>),
       CsvRow(<<>>, "s0", N195, N49, D20030530, 0, <<"0">>),
       CsvRow(PidA3, "s3", N195, N50, D20030531, Morning, <<"5", "0">>),
       CsvRow(PidA4, "s4", N195, N49, D20030531, Morning, <<"1", "0">>),
       CsvRow(PidA5, "s5", N196, N49, D20030601, Morning, <<"1", "0", "0">>) >>
CsvB ==
    << CsvRow(PidB1, "s6", N195, N49, D20030601, Morning, <<"1", "0">>),
       CsvRow(PidA1, "s1", N195, N49, D20030530, Morning, <<"2", "0">>) >>
CsvFiles == {CsvA, CsvB}

Feature(p, r, g) == [PATH |-> p, ROW |-> r, geometry |-> g]

\* Two editions of WRS2_descending.shp.
ShpA ==
    << Feature(195, 49, Geom("POLYGON", {1, 2})),
       Feature(195, 50, Geom("POLYGON", {2, 3})) >>
ShpB ==
    << Feature(195, 49, Geom("POLYGON", {1, 2, 3})),
       Feature(196, 49, Geom("POLYGON", {4})) >>
ShpFiles == {ShpA, ShpB}

(***************************************************************************)
(* The query builder                                                       *)
(*                                                                         *)
(* A query template is the sequence of its placeholders, in textual order: *)
(* Q is a plain '?', INQ is a '?' that directly follows 'IN ' (an 'IN ?'   *)
(* site).  An expanded site is [k |-> "IN", n |-> number of '?' between    *)
(* its parentheses].                                                       *)
(***************************************************************************)
Q == [k |-> "?"]
INQ == [k |-> "IN ?"]
INn(n) == [k |-> "IN", n |-> n]

\* queries.py
WRS_SEARCH == [name |-> "WRS_SEARCH", sites |-> <<Q, Q>>]
CATALOG_SEARCH_PATHROW ==
    [name |-> "CATALOG_SEARCH_PATHROW", sites |-> <<INQ, INQ, Q, Q, Q, INQ, INQ>>]
CATALOG_SEARCH_GEOM ==
    [name |-> "CATALOG_SEARCH_GEOM", sites |-> <<Q, Q, Q, Q, INQ, INQ, Q>>]
CATALOG_SEARCH_PRODUCT == [name |-> "CATALOG_SEARCH_PRODUCT", sites |-> <<Q>>]

RECURSIVE _flatten(_)
\* _flatten: the items of every list parameter in place of the list
_flatten(params) ==
    IF params = <<>> THEN <<>>
    ELSE IF Head(params).t = "list"
         THEN Head(params).v \o _flatten(Tail(params))
         ELSE <<Head(params)>> \o _flatten(Tail(params))

\* n_placeholders = [len(p) for p in params if isinstance(p, list)]
n_placeholders(params) ==
    SeqMap(LAMBDA p : Len(p.v), SelectSeq(params, LAMBDA p : p.t = "list"))

\* ReplaceFirst without the count of 1: every 'IN ?' left is replaced.
ReplaceFirst_All(sites, n) ==
    [i \in 1..Len(sites) |-> IF sites[i] = INQ THEN INn(n) ELSE sites[i]]

\* query.replace('IN ?', 'IN (?,...)', 1): the first 'IN ?' left, if any
ReplaceFirst(sites, n) ==
    IF \E i \in 1..Len(sites) : sites[i] = INQ
    THEN LET i == Min({j \in 1..Len(sites) : sites[j] = INQ})
         IN  [sites EXCEPT ![i] = INn(n)]
    ELSE sites

RECURSIVE ReplaceEach(_, _)
\* the loop `for n in n_placeholders`
ReplaceEach(sites, ns) ==
    IF ns = <<>> THEN sites
    ELSE ReplaceEach(ReplaceFirst(sites, Head(ns)), Tail(ns))

\* _format_placeholders(query, params)
_format_placeholders(sites, params) ==
    [query |-> ReplaceEach(sites, n_placeholders(params)),
     params |-> _flatten(params)]

(***************************************************************************)
(* LandsatDB.query and the SQL of queries.py                               *)
(***************************************************************************)
RECURSIVE NPlaceholders(_)
\* The number of '?' in a built query.
NPlaceholders(sites) ==
    IF sites = <<>> THEN 0
    ELSE (IF Head(sites).k = "IN" THEN Head(sites).n ELSE 1) + NPlaceholders(Tail(sites))

RECURSIVE Bind(_, _)
\* DB-API positional binding: the parameters each site receives.
Bind(sites, flat) ==
    IF sites = <<>> THEN <<>>
    ELSE LET n == IF Head(sites).k = "IN" THEN Head(sites).n ELSE 1
         IN  <<SubSeq(flat, 1, n)>> \o Bind(Tail(sites), SubSeq(flat, n + 1, Len(flat)))

\* The values bound to an IN (...) site, and the value bound to a '?'.
InValues(b) == {b[i].v : i \in 1..Len(b)}
Value(b) == b[1].v

\* SUBSTR(X, 1, 4) and SUBSTR(X, -2, 2)
First4(x) == SubSeq(x, 1, 4)
Last2(x) == SubSeq(x, Len(x) - 1, Len(x))

RECURSIVE Join(_, _)
\* FROM catalog INNER JOIN wrs ON wrs.path = catalog.path AND wrs.row = catalog.row
Join(cat, cells) ==
    IF cat = <<>> THEN <<>>
    ELSE LET c == Head(cat)
             ws == SelectSeq(cells, LAMBDA w : w.path = c.path /\ w.row = c.row)
         IN  SeqMap(LAMBDA w : [c |-> c, w |-> w], ws) \o Join(Tail(cat), cells)

\* The columns the catalog searches select.
SceneRecord(j) ==
    [product_id |-> j.c.product_id, scene_id |-> j.c.scene_id, path |-> j.c.path,
     row |-> j.c.row, sensing_time |-> j.c.sensing_time,
     cloud_cover |-> j.c.cloud_cover, geom |-> j.w.geom]

\* The filters both catalog searches share, on the sites that carry them.
TimeFilter(c, b, e) == Value(b) <= c.sensing_time /\ c.sensing_time <= Value(e)
CloudFilter(c, m) == c.cloud_cover <= Value(m)
SensorFilter(c, s) == First4(c.product_id) \in InValues(s)
\* TierFilter with the clause on the tier left out of the query.
TierFilter_Absent(c, t) == TRUE
TierFilter(c, t) == Last2(c.product_id) \in InValues(t)

\* The WHERE clause of CATALOG_SEARCH_PATHROW
PathRowWhere(j, b) ==
    /\ j.c.path \in InValues(b[1]) /\ j.c.row \in InValues(b[2])
    /\ TimeFilter(j.c, b[3], b[4])
    /\ CloudFilter(j.c, b[5])
    /\ SensorFilter(j.c, b[6])
    /\ TierFilter(j.c, b[7])

\* The WHERE clause of CATALOG_SEARCH_GEOM
GeomWhere(j, b) ==
    /\ Intersects(j.w.geom, Value(b[1]))
    /\ TimeFilter(j.c, b[2], b[3])
    /\ CloudFilter(j.c, b[4])
    /\ SensorFilter(j.c, b[5])
    /\ TierFilter(j.c, b[6])
    /\ SpatialIndex(j.w.geom, Value(b[7]))

\* CATALOG_SEARCH_PRODUCT, with date(sensing_time, 'unixepoch')
ProductWhere(j, b) == j.c.product_id = Value(b[1])
ProductRecord(j) ==
    [SceneRecord(j) EXCEPT !.sensing_time = j.c.sensing_time \div SecondsPerDay]

\* WRS_SEARCH
WrsWhere(w, b) == Intersects(w.geom, Value(b[1])) /\ SpatialIndex(w.geom, Value(b[2]))

\* The tables a query reads.
Reads(name) == IF name = "WRS_SEARCH" THEN {"wrs"} ELSE {"catalog", "wrs"}

\* cursor.execute(query, params) then fetchall(), as a list of dicts
Execute(name, sites, flat) ==
    IF ~(Reads(name) \subseteq tables) \/ (\E i \in 1..Len(sites) : sites[i] = INQ)
    THEN Raise("OperationalError")
    ELSE IF NPlaceholders(sites) # Len(flat)
    THEN Raise("ProgrammingError")
    ELSE IF \E i \in 1..Len(flat) : flat[i].t \in {"list", "tuple"}
    THEN Raise("InterfaceError")
    ELSE LET b == Bind(sites, flat)
         IN  CASE name = "CATALOG_SEARCH_PATHROW" ->
                    Ok(SeqMap(SceneRecord,
                              SelectSeq(Join(catalog, wrs), LAMBDA j : PathRowWhere(j, b))))
               [] name = "CATALOG_SEARCH_GEOM" ->
                    Ok(SeqMap(SceneRecord,
                              SelectSeq(Join(catalog, wrs), LAMBDA j : GeomWhere(j, b))))
               [] name = "CATALOG_SEARCH_PRODUCT" ->
                    Ok(SeqMap(ProductRecord,
                              SelectSeq(Join(catalog, wrs), LAMBDA j : ProductWhere(j, b))))
               [] name = "WRS_SEARCH" ->
                    Ok(SelectSeq(wrs, LAMBDA w : WrsWhere(w, b)))

\* LandsatDB.query(query, params)
query(q, params) ==
    IF params # <<>>
    THEN LET f == _format_placeholders(q.sites, params)
         IN  Execute(q.name, f.query, f.params)
    ELSE Execute(q.name, q.sites, <<>>)

(***************************************************************************)
(* The catalog service: Catalog.search, Catalog.wrs, Catalog.metadata      *)
(***************************************************************************)
\* _to_list(value)
_to_list(value) ==
    IF ~Truthy(value) THEN PyNone
    ELSE IF value.t = "list" THEN value
    ELSE IF value.t = "tuple" THEN PyList(value.v)
    ELSE PyList(<<value>>)

\* search: begin and end to integer timestamps
ToTimestamp(d) ==
    IF d.t = "str"
    THEN LET r == strptime(d)
         IN  IF r.status = "error" THEN r ELSE Ok(PyInt(timestamp(r.value)))
    ELSE Ok(PyInt(timestamp(d.v)))

\* search: the default of maxcloud
DefaultMaxcloud(maxcloud) ==
    IF ~Truthy(maxcloud) /\ maxcloud.t # "float" THEN PyFloat(100) ELSE maxcloud

\* search: the defaults of sensors and tiers
DefaultSensors(sensors) ==
    IF ~Truthy(sensors) THEN PyList(SeqMap(PyStr, SENSORS)) ELSE sensors
DefaultTiers(tiers) ==
    IF ~Truthy(tiers) THEN PyList(SeqMap(PyStr, TIERS)) ELSE tiers

\* SpatialFilter with the geometry tested before the path and row lists.
SpatialFilter_GeomFirst(path, row, geom) ==
    IF Truthy(geom) THEN "geom"
    ELSE IF Truthy(path) /\ Truthy(row) THEN "pathrow"
    ELSE "none"

\* search: which spatial filter the if/elif/else chain takes
SpatialFilter(path, row, geom) ==
    IF Truthy(path) /\ Truthy(row) THEN "pathrow"
    ELSE IF Truthy(geom) THEN "geom"
    ELSE "none"

\* _slc_on with `>` in place of `>=`.
_slc_on_After(scene) ==
    LET sat == scene.product_id[4]
    IN  IF sat # "7" THEN TRUE
        ELSE IF DtGE(scene.sensing_time, FAILURE) /\ scene.sensing_time # FAILURE THEN FALSE
        ELSE TRUE

\* search._slc_on(scene)
_slc_on(scene) ==
    LET sat == scene.product_id[4]
    IN  IF sat # "7" THEN TRUE
        ELSE IF DtGE(scene.sensing_time, FAILURE) THEN FALSE
        ELSE TRUE

\* search: scene.update(sensing_time=datetime.fromtimestamp(...))
WithDatetime(scene) == [scene EXCEPT !.sensing_time = fromtimestamp(scene.sensing_time)]

\* search, from the query's answer to the return
AfterQuery(r, names, slc) ==
    IF r.status = "error"
    THEN [result |-> r, issued |-> names, main |-> <<>>]
    ELSE LET scenes == SeqMap(WithDatetime, r.value)
         IN  [result |-> Ok(IF Truthy(slc) THEN SelectSeq(scenes, _slc_on) ELSE scenes),
              issued |-> names, main |-> scenes]

\* Catalog.search(begin, end, path, row, geom, maxcloud, sensors, tiers, slc)
search(begin, end, path0, row0, geom0, maxcloud0, sensors0, tiers0, slc) ==
    LET path == _to_list(path0)
        row == _to_list(row0)
        b == ToTimestamp(begin)
        e == ToTimestamp(end)
        geom == IF Truthy(geom0) THEN wkt_dumps(geom0.v) ELSE geom0
        maxcloud == DefaultMaxcloud(maxcloud0)
        sensors == DefaultSensors(_to_list(sensors0))
        tiers == DefaultTiers(_to_list(tiers0))
        filter == SpatialFilter(path, row, geom)
    IN  IF b.status = "error" THEN [result |-> b, issued |-> <<>>, main |-> <<>>]
        ELSE IF e.status = "error" THEN [result |-> e, issued |-> <<>>, main |-> <<>>]
        ELSE IF filter = "pathrow"
        THEN AfterQuery(query(CATALOG_SEARCH_PATHROW,
                              <<path, row, b.value, e.value, maxcloud, sensors, tiers>>),
                        <<"CATALOG_SEARCH_PATHROW">>, slc)
        ELSE IF filter = "geom"
        THEN AfterQuery(query(CATALOG_SEARCH_GEOM,
                              <<geom, b.value, e.value, maxcloud, sensors, tiers, geom>>),
                        <<"CATALOG_SEARCH_GEOM">>, slc)
        ELSE [result |-> Raise("ValueError"), issued |-> <<>>, main |-> <<>>]

\* wrs: pr.update(cover=cover), the cover as numerator and denominator
WithCover(pr, geom) ==
    [path |-> pr.path, row |-> pr.row, geom |-> pr.geom,
     cover |-> [num |-> area(intersection(geom, wkt_loads(pr.geom))),
                den |-> area(geom)]]

\* wrs: whether the cover is computed
ComputesCover(geom_wkt) == HasPOLYGON(geom_wkt)

\* Catalog.wrs(geom)
wrs_search(geom) ==
    LET geom_wkt == wkt_dumps(geom)
        path_row == query(WRS_SEARCH, <<geom_wkt, geom_wkt>>)
    IN  IF path_row.status = "error" THEN path_row
        ELSE IF ComputesCover(geom_wkt)
        THEN IF path_row.value # <<>> /\ area(geom) = 0
             THEN Raise("ZeroDivisionError")
             ELSE Ok(SeqMap(LAMBDA pr : WithCover(pr, geom), path_row.value))
        ELSE path_row

\* metadata: response[0]
FirstOf(response) ==
    IF response = <<>> THEN Raise("IndexError") ELSE Ok(response[1])

\* Catalog.metadata(product_id)
metadata(product_id) ==
    LET response == query(CATALOG_SEARCH_PRODUCT, <<PyStr(product_id)>>)
    IN  IF response.status = "error" THEN response ELSE FirstOf(response.value)

(***************************************************************************)
(* The arguments callers pass                                              *)
(***************************************************************************)
PointGeom == Geom("POINT", {1})
LineGeom == Geom("LINESTRING", {3, 4})
PolygonGeom == Geom("POLYGON", {2, 3})
MultiPolygonGeom == Geom("MULTIPOLYGON", {1, 4})
FarPointGeom == Geom("POINT", {9})

BeginInputs == {PyStr(D20030530), PyStr(D20030531)}
EndInputs == {PyStr(D20030531), PyDatetime(D20030531, SecondsPerDay - 1)}
PathInputs == {PyNone, PyList(<<>>), PyList(<<PyInt(195), PyInt(196)>>)}
RowInputs == {PyNone, PyTuple(<<PyInt(49), PyInt(50)>>)}
GeomInputs == {PyNone, PyGeom(PointGeom), PyGeom(PolygonGeom)}
MaxcloudInputs == {PyNone, PyInt(0), PyFloat(0), PyFloat(10)}
SensorInputs == {PyNone, PyStr(LE07)}
TierInputs == {PyNone, PyList(<<PyStr(T1), PyStr(RT)>>)}
SlcInputs == {PyBool(TRUE), PyBool(FALSE)}
WrsInputs == {PointGeom, LineGeom, PolygonGeom, MultiPolygonGeom, FarPointGeom}
ProductInputs == {PidA1, PidA3, PidA5, PidB1}

NoCall == [op |-> "none"]
NoResult == [status |-> "none"]

(***************************************************************************)
(* The state machine of the catalog                                        *)
(***************************************************************************)
\* The catalog before any synchronisation, no call made.
CatalogInit ==
    /\ tables = {}
    /\ catalog = <<>>
    /\ wrs = <<>>
    /\ pc = "idle"
    /\ call = NoCall
    /\ result = NoResult
    /\ issued = <<>>
    /\ main = <<>>

\* The query builder before any call.
BuilderIdle == bIn = NoCall /\ bOut = NoResult

\* No Product made, no Band at hand.
ProductIdle == pidIn = <<>> /\ product = NoResult
BandIdle == band = NoCall /\ conv = NoResult
\* Nothing resolved, nothing downloaded, no command run, no scene opened.
ResolverIdle == resIn = NoCall /\ resOut = NoResult
DownloadIdle == dl = NoCall /\ outdir = [dirs |-> {}, files |-> {}]
CliIdle == cliIn = NoCall /\ cliOut = NoResult
SceneIdle == mtlFile = <<>> /\ sceneObj = NoResult
QueryIdle == qIn = NoCall /\ qOut = NoResult /\ conns = <<>>
FileIdle == localFile = [isfile |-> FALSE, body |-> <<>>] /\ fetch = NoCall
OthersIdle ==
    ResolverIdle /\ DownloadIdle /\ CliIdle /\ SceneIdle /\ QueryIdle /\ FileIdle

Init == CatalogInit /\ BuilderIdle /\ ProductIdle /\ BandIdle /\ OthersIdle

\* sync_catalog(), the downloaded index.csv being csv
SyncCatalog(csv) ==
    /\ pc = "idle"
    /\ tables' = tables \cup {"catalog"}
    /\ catalog' = ImportCatalog(catalog, csv)
    /\ UNCHANGED <<wrs, callVars, exceptCatalog>>

\* sync_wrs(), the downloaded shapefile being shp
SyncWrs(shp) ==
    /\ pc = "idle"
    /\ tables' = tables \cup {"wrs"}
    /\ wrs' = ImportWrs(wrs, shp)
    /\ UNCHANGED <<catalog, callVars, exceptCatalog>>

\* A call of Catalog.search
Search(begin, end, path, row, geom, maxcloud, sensors, tiers, slc) ==
    /\ pc = "idle"
    /\ LET r == search(begin, end, path, row, geom, maxcloud, sensors, tiers, slc)
       IN  /\ result' = r.result
           /\ issued' = r.issued
           /\ main' = r.main
    /\ call' = [op |-> "search", begin |-> begin, end |-> end, path |-> path,
                row |-> row, geom |-> geom, maxcloud |-> maxcloud,
                sensors |-> sensors, tiers |-> tiers, slc |-> slc]
    /\ pc' = "returned"
    /\ UNCHANGED <<dbVars, exceptCatalog>>

\* A call of Catalog.wrs
Wrs(geom) ==
    /\ pc = "idle"
    /\ result' = wrs_search(geom)
    /\ issued' = <<"WRS_SEARCH">>
    /\ call' = [op |-> "wrs", geom |-> geom]
    /\ pc' = "returned"
    /\ UNCHANGED <<dbVars, main, exceptCatalog>>

\* A call of Catalog.metadata
Metadata(product_id) ==
    /\ pc = "idle"
    /\ result' = metadata(product_id)
    /\ issued' = <<"CATALOG_SEARCH_PRODUCT">>
    /\ call' = [op |-> "metadata", product_id |-> product_id]
    /\ pc' = "returned"
    /\ UNCHANGED <<dbVars, main, exceptCatalog>>

\* The caller has taken the result; the next call may start.
Return ==
    /\ pc = "returned"
    /\ pc' = "idle"
    /\ call' = NoCall
    /\ result' = NoResult
    /\ issued' = <<>>
    /\ main' = <<>>
    /\ UNCHANGED <<dbVars, exceptCatalog>>

Next ==
    \/ \E csv \in CsvFiles : SyncCatalog(csv)
    \/ \E shp \in ShpFiles : SyncWrs(shp)
    \/ \E begin \in BeginInputs, end \in EndInputs, path \in PathInputs,
          row \in RowInputs, geom \in GeomInputs, maxcloud \in MaxcloudInputs,
          sensors \in SensorInputs, tiers \in TierInputs, slc \in SlcInputs :
            Search(begin, end, path, row, geom, maxcloud, sensors, tiers, slc)
    \/ \E geom \in WrsInputs : Wrs(geom)
    \/ \E product_id \in ProductInputs : Metadata(product_id)
    \/ Return

Spec == Init /\ [][Next]_vars

(***************************************************************************)
(* The query builder on its own: _format_placeholders on any template of   *)
(* at most MaxSites placeholders and any sequence of at most MaxSites      *)
(* parameters.  The parameter at position i is the number 100 + i or a     *)
(* list <<10 i + 1, ..., 10 i + n>> with n <= MaxListLen.                  *)
(***************************************************************************)
MaxSites == 3
MaxListLen == 2

Templates == UNION {[1..n -> {Q, INQ}] : n \in 0..MaxSites}
ParamAt(i) ==
    {PyInt(100 + i)} \cup {PyList([e \in 1..n |-> PyInt(10 * i + e)]) : n \in 0..MaxListLen}
ParamSeqs ==
    UNION {{ps \in [1..n -> UNION {ParamAt(i) : i \in 1..n}] :
               \A i \in 1..n : ps[i] \in ParamAt(i)} : n \in 0..MaxSites}

BuilderInit ==
    /\ CatalogInit /\ ProductIdle /\ BandIdle /\ OthersIdle
    /\ bIn \in [query : Templates, params : ParamSeqs]
    /\ bOut = NoResult

\* A call of _format_placeholders(query, params)
FormatPlaceholders ==
    /\ bOut = NoResult
    /\ bOut' = _format_placeholders(bIn.query, bIn.params)
    /\ UNCHANGED <<bIn, exceptBuilder>>

\* LandsatDB.query(query, params) up to cursor.execute: the query and the
\* parameters it hands to the datastore
Handed(sites, params) ==
    IF params # <<>> THEN _format_placeholders(sites, params)
    ELSE [query |-> sites, params |-> <<>>]

\* A call of LandsatDB.query(query, params), as far as cursor.execute
DbQuery ==
    /\ bOut = NoResult
    /\ bOut' = [query |-> Handed(bIn.query, bIn.params).query,
                params |-> Handed(bIn.query, bIn.params).params,
                executed |-> TRUE]
    /\ UNCHANGED <<bIn, exceptBuilder>>

BuilderNext == FormatPlaceholders \/ DbQuery

SpecBuilder == BuilderInit /\ [][BuilderNext]_vars

(***************************************************************************)
(* Product identifiers: meta_from_pid and Product.__init__                 *)
(*                                                                         *)
(* Here a date is [year, month, day], as datetime(year, month, day).       *)
(***************************************************************************)
RECURSIVE split(_, _)
\* str.split(sep) for a one-character separator
split(s, sep) ==
    IF \E i \in 1..Len(s) : s[i] = sep
    THEN LET i == Min({j \in 1..Len(s) : s[j] = sep})
         IN  <<SubSeq(s, 1, i - 1)>> \o split(SubSeq(s, i + 1, Len(s)), sep)
    ELSE <<s>>

\* Whether int(s) accepts s: a non-empty string of decimal digits.
IsDigits(s) ==
    s # <<>> /\ \A i \in 1..Len(s) : s[i] \in {"0", "1", "2", "3", "4", "5", "6", "7", "8", "9"}

\* The days of a month, as datetime checks them.
DaysInMonth(y, m) ==
    IF m \in {4, 6, 9, 11} THEN 30
    ELSE IF m = 2 THEN (IF y % 4 = 0 /\ (y % 100 # 0 \/ y % 400 = 0) THEN 29 ELSE 28)
    ELSE 31

\* datetime.strptime(s, '%Y%m%d') of an eight-character string
strptime_Ymd(s) ==
    IF ~IsDigits(s) \/ Len(s) # 8 THEN Raise("ValueError")
    ELSE LET y == int(SubSeq(s, 1, 4))
             m == int(SubSeq(s, 5, 6))
             d == int(SubSeq(s, 7, 8))
         IN  IF m \in 1..12 /\ d \in 1..DaysInMonth(y, m)
             THEN Ok([year |-> y, month |-> m, day |-> d])
             ELSE Raise("ValueError")

\* int(parts[2][3:]) with the slice taken one character early.
pid_row_From3(field) == int(SubSeq(field, 3, Len(field)))

\* meta_from_pid: int(parts[2][:3]) and int(parts[2][3:])
pid_path(field) == int(SubSeq(field, 1, IF Len(field) < 3 THEN Len(field) ELSE 3))
pid_row(field) == int(SubSeq(field, 4, Len(field)))

\* meta_from_pid(product_id)
meta_from_pid(product_id) ==
    LET parts == split(product_id, "_")
    IN  IF Len(parts) < 7 THEN Raise("IndexError")
        ELSE IF \/ ~IsDigits(SubSeq(parts[3], 1, 3))
                \/ ~IsDigits(SubSeq(parts[3], 4, Len(parts[3])))
                \/ ~IsDigits(parts[6])
        THEN Raise("ValueError")
        ELSE LET acq == strptime_Ymd(parts[4])
                 proc == strptime_Ymd(parts[5])
             IN  IF acq.status = "error" THEN acq
                 ELSE IF proc.status = "error" THEN proc
                 ELSE Ok([product_id |-> product_id,
                          sensor |-> parts[1], correction |-> parts[2],
                          path |-> pid_path(parts[3]), row |-> pid_row(parts[3]),
                          acquisition_date |-> acq.value,
                          processing_date |-> proc.value,
                          collection |-> int(parts[6]), tier |-> parts[7]])

RECURSIVE Digits(_)
\* str(n) of a natural number
Digits(n) ==
    IF n < 10 THEN <<SubSeq(<<"0", "1", "2", "3", "4", "5", "6", "7", "8", "9">>, n + 1, n + 1)[1]>>
    ELSE Digits(n \div 10) \o Digits(n % 10)

RECURSIVE ZeroPad(_, _)
\* format(n, '0w'): the digits of n with zeros in front up to w characters
ZeroPad(n, w) ==
    IF Len(Digits(n)) >= w THEN Digits(n) ELSE <<"0">> \o ZeroPad(n, w - 1)

\* BASE_URL formatted with the fields of meta, as the path components after
\* the bucket
BASE_URL(meta) ==
    <<meta.sensor, ZeroPad(meta.collection, 2), ZeroPad(meta.path, 3),
      ZeroPad(meta.row, 3), meta.product_id>>

\* The product identifiers callers pass: well-formed ones, and ones with a
\* path/row of five digits, a date that is no date, a collection of one
\* digit, or the tier missing.
P044034 == <<"0", "4", "4", "0", "3", "4">>
P001248 == <<"0", "0", "1", "2", "4", "8">>
P44034 == <<"4", "4", "0", "3", "4">>
A20130330 == <<"2", "0", "1", "3", "0", "3", "3", "0">>
A20170310 == <<"2", "0", "1", "7", "0", "3", "1", "0">>
A20000229 == <<"2", "0", "0", "0", "0", "2", "2", "9">>
A20130230 == <<"2", "0", "1", "3", "0", "2", "3", "0">>
Coll02 == <<"0", "2">>
Coll1 == <<"1">>

ValidPids ==
    {Pid(s, c, pr, a, p, co, t) :
        s \in {LC08, LE07, LT05}, c \in {L1TP, L1GT},
        pr \in {P044034, P195049, P001248}, a \in {A20130330, A20000229, A20030531},
        p \in {A20170310, A20160927}, co \in {Coll01, Coll02}, t \in {T1, T2, RT}}
InvalidPids ==
    {Pid(LC08, L1GT, pr, a, A20170310, co, T2) :
        pr \in {P044034, P44034}, a \in {A20130330, A20130230}, co \in {Coll01, Coll1}}
      \ ValidPids
ShortPids == {Concat(<<LC08, U, L1GT, U, P044034, U, A20130330, U, A20170310, U, Coll01>>)}
PidInputs == ValidPids \cup InvalidPids \cup ShortPids

ProductInit ==
    /\ CatalogInit /\ BuilderIdle /\ BandIdle /\ OthersIdle
    /\ pidIn \in PidInputs
    /\ product = NoResult

\* Product(product_id): Product.__init__
NewProduct ==
    /\ product = NoResult
    /\ LET meta == meta_from_pid(pidIn)
       IN  product' = IF meta.status = "error" THEN meta
                      ELSE Ok([product_id |-> pidIn, meta |-> meta.value,
                               baseurl |-> BASE_URL(meta.value)])
    /\ UNCHANGED <<pidIn, downloadVars, exceptProduct>>

\* files.json: for each sensor, the labels of the files of a product
FILES ==
  [
    LC08 |-> <<<<"B", "1", ".", "T", "I", "F">>,
             <<"B", "1", "0", ".", "T", "I", "F">>,
             <<"B", "Q", "A", ".", "T", "I", "F">>,
             <<"A", "N", "G", ".", "t", "x", "t">>,
             <<"M", "T", "L", ".", "t", "x", "t">>>>,
    LE07 |-> <<<<"B", "1", ".", "T", "I", "F">>,
             <<"B", "6", "_", "V", "C", "I", "D", "_", "1", ".", "T", "I", "F">>,
             <<"B", "Q", "A", ".", "T", "I", "F">>,
             <<"M", "T", "L", ".", "t", "x", "t">>>>,
    LT05 |-> <<<<"B", "1", ".", "T", "I", "F">>,
             <<"B", "6", ".", "T", "I", "F">>,
             <<"B", "Q", "A", ".", "T", "I", "F">>,
             <<"M", "T", "L", ".", "t", "x", "t">>,
             <<"R", "E", "A", "D", "M", "E", ".", "G", "T", "F">>>>
  ]

\* str(sensor) as the key of FILES
SensorKey(sensor) ==
    IF sensor = LC08 THEN "LC08" ELSE IF sensor = LE07 THEN "LE07"
    ELSE IF sensor = LT05 THEN "LT05" ELSE "other"

\* Product.available
available(p) ==
    IF SensorKey(p.meta.sensor) \in DOMAIN FILES
    THEN Ok(FILES[SensorKey(p.meta.sensor)]) ELSE Raise("KeyError")

\* `sub in s` for strings
Contains(s, sub) ==
    \E i \in 1..(Len(s) - Len(sub) + 1) : SubSeq(s, i, i + Len(sub) - 1) = sub

RECURSIVE ReplaceSub(_, _, _)
\* str.replace(a, b)
ReplaceSub(s, a, b) ==
    IF Len(s) < Len(a) THEN s
    ELSE IF SubSeq(s, 1, Len(a)) = a
    THEN b \o ReplaceSub(SubSeq(s, Len(a) + 1, Len(s)), a, b)
    ELSE <<s[1]>> \o ReplaceSub(Tail(s), a, b)

LowerTif == <<".", "t", "i", "f">>
UpperTif == <<".", "T", "I", "F">>
README == <<"R", "E", "A", "D", "M", "E">>

\* Product._url(label), as the base URL and the last component
_url(p, label) ==
    [baseurl |-> p.baseurl,
     basename |-> IF Contains(label, README) THEN label ELSE p.product_id \o U \o label]

\* download: the labels to fetch
FilesToFetch(p, files) ==
    IF ~Truthy(files) THEN available(p).value
    ELSE SelectSeq(files.v, LAMBDA f : f \in Range(available(p).value))

\* What the server answers for the n-th file fetched: "ok", a body whose MD5
\* is not the ETag ("corrupt"), or a status other than 200 ("missing").
Answer(remote, n) == IF remote.at = n THEN remote.kind ELSE "ok"

RECURSIVE Fetch(_, _, _, _, _)
\* The loop of download over the labels from the n-th on, each through
\* download_file(url, dst_dir, verify=True): the files of dst_dir and the
\* outcome.
Fetch(p, labels, n, remote, written) ==
    IF n > Len(labels) THEN [files |-> written, out |-> Ok(PyNone)]
    ELSE LET label == ReplaceSub(labels[n], LowerTif, UpperTif)
             fname == _url(p, label).basename
         IN  IF Answer(remote, n) = "missing"
             THEN [files |-> written, out |-> Raise("HTTPError")]
             ELSE IF Answer(remote, n) = "corrupt"
             THEN [files |-> written \cup {fname}, out |-> Raise("HTTPError")]
             ELSE Fetch(p, labels, n + 1, remote, written \cup {fname})

\* Product.download(out_dir, progressbar, files), called with the keyword
\* arguments kwargs: the directories and files under out_dir and the outcome.
download(p, kwargs, files, remote) ==
    IF ~(kwargs \subseteq {"progressbar", "files"})
    THEN [dirs |-> {}, files |-> {}, out |-> Raise("TypeError")]
    ELSE IF available(p).status = "error"
    THEN [dirs |-> {p.product_id}, files |-> {}, out |-> available(p)]
    ELSE LET done == Fetch(p, FilesToFetch(p, files), 1, remote, {})
         IN  [dirs |-> {p.product_id}, files |-> done.files, out |-> done.out]

KwargsInputs == {{"progressbar"}, {"progressbar", "verify"}}
FilesInputs ==
    {PyNone, PyList(<<>>),
     PyList(<<<<"M", "T", "L", ".", "t", "x", "t">>, <<"B", "1", ".", "t", "i", "f">>>>)}
RemoteInputs ==
    {[at |-> 0, kind |-> "ok"], [at |-> 1, kind |-> "corrupt"], [at |-> 2, kind |-> "missing"]}

\* product.download(out_dir, ...), into an empty out_dir
Download(kwargs, files, remote) ==
    /\ product # NoResult /\ product.status = "ok"
    /\ dl = NoCall
    /\ LET d == download(product.value, kwargs, files, remote)
       IN  /\ dl' = [kwargs |-> kwargs, files |-> files, remote |-> remote, out |-> d.out]
           /\ outdir' = [dirs |-> d.dirs, files |-> d.files]
    /\ UNCHANGED <<productVars, exceptProduct>>

ProductNext ==
    \/ NewProduct
    \/ \E kwargs \in KwargsInputs : \E files \in FilesInputs : \E remote \in RemoteInputs :
           Download(kwargs, files, remote)

SpecProduct == ProductInit /\ [][ProductNext]_vars

(***************************************************************************)
(* Bands: the band table, Band.__init__ and the conversions of a Band      *)
(***************************************************************************)
\* bands.json: for each sensor, its band suffixes with their long names
BANDS ==
  [
    MSS |-> <<
        [suffix |-> <<"B", "4">>,
         long_name |-> <<"G", "r", "e", "e", "n">>],
        [suffix |-> <<"B", "5">>,
         long_name |-> <<"R", "e", "d">>],
        [suffix |-> <<"B", "6">>,
         long_name |-> <<"N", "e", "a", "r", " ", "I", "n", "f", "r", "a", "r", "e", "d", " ", "1", " ", "(", "N", "I", "R", "1", ")">>],
        [suffix |-> <<"B", "7">>,
         long_name |-> <<"N", "e", "a", "r", " ", "I", "n", "f", "r", "a", "r", "e", "d", " ", "2", " ", "(", "N", "I", "R", "2", ")">>] >>,
    MSS_ |-> <<
        [suffix |-> <<"B", "1">>,
         long_name |-> <<"G", "r", "e", "e", "n">>],
        [suffix |-> <<"B", "2">>,
         long_name |-> <<"R", "e", "d">>],
        [suffix |-> <<"B", "3">>,
         long_name |-> <<"N", "e", "a", "r", " ", "I", "n", "f", "r", "a", "r", "e", "d", " ", "1", " ", "(", "N", "I", "R", "1", ")">>],
        [suffix |-> <<"B", "4">>,
         long_name |-> <<"N", "e", "a", "r", " ", "I", "n", "f", "r", "a", "r", "e", "d", " ", "2", " ", "(", "N", "I", "R", "2", ")">>] >>,
    TM |-> <<
        [suffix |-> <<"B", "1">>,
         long_name |-> <<"B", "l", "u", "e">>],
        [suffix |-> <<"B", "2">>,
         long_name |-> <<"G", "r", "e", "e", "n">>],
        [suffix |-> <<"B", "3">>,
         long_name |-> <<"R", "e", "d">>],
        [suffix |-> <<"B", "4">>,
         long_name |-> <<"N", "e", "a", "r", " ", "I", "n", "f", "r", "a", "r", "e", "d", " ", "(", "N", "I", "R", ")">>],
        [suffix |-> <<"B", "5">>,
         long_name |-> <<"S", "h", "o", "r", "t", "-", "w", "a", "v", "e", " ", "I", "n", "f", "r", "a", "r", "e", "d", " ", "1", " ", "(", "S", "W", "I", "R", "1", ")">>],
        [suffix |-> <<"B", "6">>,
         long_name |-> <<"T", "h", "e", "r", "m", "a", "l", " ", "I", "n", "f", "r", "a", "r", "e", "d", " ", "(", "T", "I", "R", ")">>],
        [suffix |-> <<"B", "7">>,
         long_name |-> <<"S", "h", "o", "r", "t", "-", "w", "a", "v", "e", " ", "I", "n", "f", "r", "a", "r", "e", "d", " ", "2", " ", "(", "S", "W", "I", "R", "2", ")">>] >>,
    ETM |-> <<
        [suffix |-> <<"B", "1">>,
         long_name |-> <<"B", "l", "u", "e">>],
        [suffix |-> <<"B", "2">>,
         long_name |-> <<"G", "r", "e", "e", "n">>],
        [suffix |-> <<"B", "3">>,
         long_name |-> <<"R", "e", "d">>],
        [suffix |-> <<"B", "4">>,
         long_name |-> <<"N", "e", "a", "r", " ", "I", "n", "f", "r", "a", "r", "e", "d", " ", "(", "N", "I", "R", ")">>],
        [suffix |-> <<"B", "5">>,
         long_name |-> <<"S", "h", "o", "r", "t", "-", "w", "a", "v", "e", " ", "I", "n", "f", "r", "a", "r", "e", "d", " ", "1", " ", "(", "S", "W", "I", "R", "1", ")">>],
        [suffix |-> <<"B", "6", "_", "V", "C", "I", "D", "_", "1">>,
         long_name |-> <<"T", "h", "e", "r", "m", "a", "l", " ", "I", "n", "f", "r", "a", "r", "e", "d", " ", "1", " ", "(", "T", "I", "R", "1", ")">>],
        [suffix |-> <<"B", "6", "_", "V", "C", "I", "D", "_", "2">>,
         long_name |-> <<"T", "h", "e", "r", "m", "a", "l", " ", "I", "n", "f", "r", "a", "r", "e", "d", " ", "2", " ", "(", "T", "I", "R", "2", ")">>],
        [suffix |-> <<"B", "7">>,
         long_name |-> <<"S", "h", "o", "r", "t", "-", "w", "a", "v", "e", " ", "I", "n", "f", "r", "a", "r", "e", "d", " ", "2", " ", "(", "S", "W", "I", "R", "2", ")">>],
        [suffix |-> <<"B", "8">>,
         long_name |-> <<"P", "a", "n", "c", "h", "r", "o", "m", "a", "t", "i", "c">>] >>,
    OLI_TIRS |-> <<
        [suffix |-> <<"B", "1">>,
         long_name |-> <<"C", "o", "a", "s", "t", "a", "l", " ", "A", "e", "r", "o", "s", "o", "l">>],
        [suffix |-> <<"B", "2">>,
         long_name |-> <<"B", "l", "u", "e">>],
        [suffix |-> <<"B", "3">>,
         long_name |-> <<"G", "r", "e", "e", "n">>],
        [suffix |-> <<"B", "4">>,
         long_name |-> <<"R", "e", "d">>],
        [suffix |-> <<"B", "5">>,
         long_name |-> <<"N", "e", "a", "r", " ", "I", "n", "f", "r", "a", "r", "e", "d", " ", "(", "N", "I", "R", ")">>],
        [suffix |-> <<"B", "6">>,
         long_name |-> <<"S", "h", "o", "r", "t", "-", "w", "a", "v", "e", " ", "I", "n", "f", "r", "a", "r", "e", "d", " ", "1", " ", "(", "S", "W", "I", "R", "1", ")">>],
        [suffix |-> <<"B", "7">>,
         long_name |-> <<"S", "h", "o", "r", "t", "-", "w", "a", "v", "e", " ", "I", "n", "f", "r", "a", "r", "e", "d", " ", "2", " ", "(", "S", "W", "I", "R", "2", ")">>],
        [suffix |-> <<"B", "8">>,
         long_name |-> <<"P", "a", "n", "c", "h", "r", "o", "m", "a", "t", "i", "c">>],
        [suffix |-> <<"B", "9">>,
         long_name |-> <<"C", "i", "r", "r", "u", "s">>],
        [suffix |-> <<"B", "1", "0">>,
         long_name |-> <<"T", "h", "e", "r", "m", "a", "l", " ", "I", "n", "f", "r", "a", "r", "e", "d", " ", "1", " ", "(", "T", "I", "R", "S", "1", ")">>],
        [suffix |-> <<"B", "1", "1">>,
         long_name |-> <<"T", "h", "e", "r", "m", "a", "l", " ", "I", "n", "f", "r", "a", "r", "e", "d", " ", "2", " ", "(", "T", "I", "R", "S", "2", ")">>] >>
  ]

BQA == <<"B", "Q", "A">>

UpperCase == <<"A", "B", "C", "D", "E", "F", "G", "H", "I", "J", "K", "L", "M",
               "N", "O", "P", "Q", "R", "S", "T", "U", "V", "W", "X", "Y", "Z">>
LowerCase == <<"a", "b", "c", "d", "e", "f", "g", "h", "i", "j", "k", "l", "m",
               "n", "o", "p", "q", "r", "s", "t", "u", "v", "w", "x", "y", "z">>

\* str.lower(), str.replace(a, b) for single characters, str.find(c)
lower(s) ==
    [i \in 1..Len(s) |->
        IF \E k \in 1..26 : UpperCase[k] = s[i]
        THEN LowerCase[CHOOSE k \in 1..26 : UpperCase[k] = s[i]]
        ELSE s[i]]
replace(s, a, b) == [i \in 1..Len(s) |-> IF s[i] = a THEN b ELSE s[i]]
find(s, c) == IF \E i \in 1..Len(s) : s[i] = c THEN Min({i \in 1..Len(s) : s[i] = c}) - 1 ELSE -1

\* s[start:end] of Python, for start >= 0 and any end
Slice(s, start, end) ==
    SubSeq(s, start + 1, IF end < 0 THEN Len(s) + end ELSE IF end > Len(s) THEN Len(s) ELSE end)

\* _band_shortname(long_name)
_band_shortname(long_name) ==
    IF Contains(long_name, <<"(">>)
    THEN lower(Slice(long_name, find(long_name, "(") + 1, find(long_name, ")")))
    ELSE lower(replace(replace(long_name, " ", "_"), "-", "_"))

\* _is_band(suffix)
_is_band(suffix) == suffix[1] = "B" /\ IsDigits(<<suffix[2]>>)

\* _band_number(suffix)
_band_number(suffix) ==
    IF _is_band(suffix)
    THEN LET bnum_str == Slice(suffix, 1, Len(suffix))
         IN  IF Contains(bnum_str, <<"V", "C", "I", "D">>)
             THEN Ok(int(<<bnum_str[1], bnum_str[Len(bnum_str)]>>))
             ELSE Ok(int(bnum_str))
    ELSE Raise("ValueError")

\* BANDS[sensor][suffix]
LongName(sensor, suffix) ==
    LET t == BANDS[sensor]
    IN  t[CHOOSE i \in 1..Len(t) : t[i].suffix = suffix].long_name

Suffixes(sensor) == {BANDS[sensor][i].suffix : i \in 1..Len(BANDS[sensor])}

\* Band.__init__(scene, suffix), for a scene of the given sensor
NewBandObject(sensor, suffix) ==
    IF suffix = BQA
    THEN [sensor |-> sensor, suffix |-> suffix,
          long_name |-> <<"Q", "u", "a", "l", "i", "t", "y", " ", "B", "a", "n", "d">>,
          bname |-> <<"b", "q", "a">>, bnum |-> PyNone]
    ELSE [sensor |-> sensor, suffix |-> suffix,
          long_name |-> LongName(sensor, suffix),
          bname |-> _band_shortname(LongName(sensor, suffix)),
          bnum |-> PyInt(_band_number(suffix).value)]

TIR == <<"t", "i", "r">>

\* The outcome of a conversion: what it returns or raises, and how many
\* times it read the raster (self.read(1)).
Outcome(r, reads) == [result |-> r, reads |-> reads]

\* dn = custom_dn if it is an array, else self.read(1)
ReadsFor(custom_dn) == IF custom_dn THEN 0 ELSE 1

\* Band._gain_bias(unit): the rescaling keys of the MTL name a band number
_gain_bias(b) == IF b.bnum.t = "none" THEN Raise("KeyError") ELSE Ok("gain, bias")

\* Band.to_radiance(custom_dn)
to_radiance(b, custom_dn) ==
    IF _gain_bias(b).status = "error"
    THEN Outcome(_gain_bias(b), ReadsFor(custom_dn))
    ELSE Outcome(Ok("radiance"), ReadsFor(custom_dn))

\* to_reflectance with the raster read before the band is checked.
to_reflectance_ReadFirst(b, custom_dn) ==
    IF Contains(b.bname, TIR)
    THEN Outcome(Raise("ValueError"), ReadsFor(custom_dn))
    ELSE IF _gain_bias(b).status = "error"
    THEN Outcome(_gain_bias(b), ReadsFor(custom_dn))
    ELSE Outcome(Ok("reflectance"), ReadsFor(custom_dn))

\* Band.to_reflectance(custom_dn)
to_reflectance(b, custom_dn) ==
    IF Contains(b.bname, TIR)
    THEN Outcome(Raise("ValueError"), 0)
    ELSE IF _gain_bias(b).status = "error"
    THEN Outcome(_gain_bias(b), ReadsFor(custom_dn))
    ELSE Outcome(Ok("reflectance"), ReadsFor(custom_dn))

\* Band.to_brightness_temperature(custom_dn)
to_brightness_temperature(b, custom_dn) ==
    IF ~Contains(b.bname, TIR)
    THEN Outcome(Raise("ValueError"), 0)
    ELSE LET radiance == to_radiance(b, TRUE)
         IN  IF radiance.result.status = "error"
             THEN Outcome(radiance.result, ReadsFor(custom_dn))
             ELSE Outcome(Ok("brightness temperature"), ReadsFor(custom_dn))

\* Scene.sensor: the SENSOR_ID of the MTL, with "_" added to MSS for
\* Landsat 4 and 5
SensorIds == {"MSS", "MSS_", "TM", "ETM", "OLI_TIRS"}

BandInit ==
    /\ CatalogInit /\ BuilderIdle /\ ProductIdle /\ OthersIdle
    /\ band = NoCall
    /\ conv = NoResult

\* Band(scene, suffix) for a band file of the scene, or scene.quality
NewBand(sensor, suffix) ==
    /\ band' = NewBandObject(sensor, suffix)
    /\ conv' = NoResult
    /\ UNCHANGED exceptBand

\* band.to_radiance(custom_dn)
ToRadiance(custom_dn) ==
    /\ band # NoCall
    /\ conv' = [op |-> "to_radiance", custom_dn |-> custom_dn,
                out |-> to_radiance(band, custom_dn)]
    /\ UNCHANGED <<band, exceptBand>>

\* band.to_reflectance(custom_dn)
ToReflectance(custom_dn) ==
    /\ band # NoCall
    /\ conv' = [op |-> "to_reflectance", custom_dn |-> custom_dn,
                out |-> to_reflectance(band, custom_dn)]
    /\ UNCHANGED <<band, exceptBand>>

\* band.to_brightness_temperature(custom_dn)
ToBrightnessTemperature(custom_dn) ==
    /\ band # NoCall
    /\ conv' = [op |-> "to_brightness_temperature", custom_dn |-> custom_dn,
                out |-> to_brightness_temperature(band, custom_dn)]
    /\ UNCHANGED <<band, exceptBand>>

BandNext ==
    \/ \E sensor \in SensorIds : \E suffix \in Suffixes(sensor) \cup {BQA} :
           NewBand(sensor, suffix)
    \/ \E custom_dn \in BOOLEAN : ToRadiance(custom_dn)
    \/ \E custom_dn \in BOOLEAN : ToReflectance(custom_dn)
    \/ \E custom_dn \in BOOLEAN : ToBrightnessTemperature(custom_dn)

SpecBand == BandInit /\ [][BandNext]_vars

(***************************************************************************)
(* Band resolver: suffixes, band numbers and band names                    *)
(***************************************************************************)
VCID == <<"_", "V", "C", "I", "D", "_">>

\* _suffix_from_bnum without the case of the split thermal band.
_suffix_from_bnum_Plain(band_number) == <<"B">> \o Digits(band_number)

\* _suffix_from_bnum(band_number)
_suffix_from_bnum(band_number) ==
    IF band_number \in {61, 62}
    THEN <<"B", Digits(band_number)[1]>> \o VCID \o <<Digits(band_number)[2]>>
    ELSE <<"B">> \o Digits(band_number)

\* _suffix_from_name that falls back on the first band of the sensor.
_suffix_from_name_Default(band_name, sensor) ==
    IF sensor \notin DOMAIN BANDS THEN Raise("ValueError")
    ELSE LET t == BANDS[sensor]
             hits == {i \in 1..Len(t) :
                         band_name \in {t[i].long_name, _band_shortname(t[i].long_name)}}
         IN  IF hits = {} THEN Ok(t[1].suffix) ELSE Ok(t[Min(hits)].suffix)

\* _suffix_from_name(band_name, sensor)
_suffix_from_name(band_name, sensor) ==
    IF sensor \notin DOMAIN BANDS THEN Raise("ValueError")
    ELSE LET t == BANDS[sensor]
             hits == {i \in 1..Len(t) :
                         band_name \in {t[i].long_name, _band_shortname(t[i].long_name)}}
         IN  IF hits = {} THEN Raise("ValueError") ELSE Ok(t[Min(hits)].suffix)

\* The largest band number asked for.
MaxBnum == 62

\* Suffixes, band numbers, band names and sensors the resolver is asked about:
\* the declared ones, and a few that no sensor declares.
SuffixInputs ==
    UNION {Suffixes(sensor) : sensor \in SensorIds}
      \cup {BQA, <<"M", "T", "L">>, <<"C", "1">>, <<"B", "1", "2">>}
BnumInputs == 0..MaxBnum
NameInputs ==
    UNION {{BANDS[sensor][i].long_name : i \in 1..Len(BANDS[sensor])}
             \cup {_band_shortname(BANDS[sensor][i].long_name) : i \in 1..Len(BANDS[sensor])} :
           sensor \in SensorIds}
      \cup {<<"t", "h", "e", "r", "m", "a", "l">>, <<"b", "q", "a">>, <<>>}
SensorNameInputs == SensorIds \cup {"OLI", "tm"}

ResolverInit ==
    /\ CatalogInit /\ BuilderIdle /\ ProductIdle /\ BandIdle
    /\ DownloadIdle /\ CliIdle /\ SceneIdle /\ QueryIdle /\ FileIdle
    /\ ResolverIdle

\* A call of the resolver: the function and its argument; when the argument is
\* the result of the call before it (chained), the argument of that call.
ResolverCall(f, arg, chained, origin) ==
    [f |-> f, arg |-> arg, chained |-> chained, origin |-> origin]

\* _band_number(suffix)
BandNumber(suffix) ==
    /\ resIn' = ResolverCall("_band_number", suffix, FALSE, suffix)
    /\ resOut' = _band_number(suffix)
    /\ UNCHANGED exceptResolver

\* _suffix_from_bnum(band_number)
SuffixFromBnum(band_number) ==
    /\ resIn' = ResolverCall("_suffix_from_bnum", band_number, FALSE, band_number)
    /\ resOut' = Ok(_suffix_from_bnum(band_number))
    /\ UNCHANGED exceptResolver

\* _suffix_from_bnum(_band_number(suffix))
SuffixFromBnumOfResult ==
    /\ resIn # NoCall /\ resIn.f = "_band_number" /\ ~resIn.chained
    /\ resOut.status = "ok"
    /\ resIn' = ResolverCall("_suffix_from_bnum", resOut.value, TRUE, resIn.arg)
    /\ resOut' = Ok(_suffix_from_bnum(resOut.value))
    /\ UNCHANGED exceptResolver

\* _band_number(_suffix_from_bnum(band_number))
BandNumberOfResult ==
    /\ resIn # NoCall /\ resIn.f = "_suffix_from_bnum" /\ ~resIn.chained
    /\ resOut.status = "ok"
    /\ resIn' = ResolverCall("_band_number", resOut.value, TRUE, resIn.arg)
    /\ resOut' = _band_number(resOut.value)
    /\ UNCHANGED exceptResolver

\* _suffix_from_name(band_name, sensor)
SuffixFromName(band_name, sensor) ==
    /\ resIn' = [f |-> "_suffix_from_name", band_name |-> band_name, sensor |-> sensor,
                 chained |-> FALSE]
    /\ resOut' = _suffix_from_name(band_name, sensor)
    /\ UNCHANGED exceptResolver

ResolverNext ==
    \/ \E suffix \in SuffixInputs : BandNumber(suffix)
    \/ \E band_number \in BnumInputs : SuffixFromBnum(band_number)
    \/ SuffixFromBnumOfResult
    \/ BandNumberOfResult
    \/ \E band_name \in NameInputs : \E sensor \in SensorNameInputs :
           SuffixFromName(band_name, sensor)

SpecResolver == ResolverInit /\ [][ResolverNext]_vars

(***************************************************************************)
(* Command line: pylandsat search                                          *)
(***************************************************************************)
RECURSIVE lstrip(_)
\* str.lstrip() and str.strip(), for blanks
lstrip(s) == IF s # <<>> /\ s[1] = " " THEN lstrip(Tail(s)) ELSE s
Reverse(s) == [i \in 1..Len(s) |-> s[Len(s) + 1 - i]]
strip(s) == Reverse(lstrip(Reverse(lstrip(s))))

\* [s.strip() for s in sensors.split(',')]
StrippedParts(option) ==
    LET parts == split(option.v, ",")
    IN  PyList([i \in 1..Len(parts) |-> PyStr(strip(parts[i]))])

\* `if sensors:` and `if tiers:` for an option that is None or a str
OptionGiven(option) == option.t = "str" /\ option.v # <<>>

\* if len(begin) == 4: begin += '-01-01'
WithMonthDay(date) ==
    IF Len(date) = 4 THEN date \o <<"-", "0", "1", "-", "0", "1">> ELSE date

\* cli.search up to the call of Catalog.search: the arguments of that call.
\* A str has no method trip, so the tiers line raises AttributeError.
cli_search(begin, end, sensors, tiers, slcoff) ==
    IF OptionGiven(tiers) THEN Raise("AttributeError")
    ELSE Ok([begin |-> WithMonthDay(begin), end |-> WithMonthDay(end),
             sensors |-> IF OptionGiven(sensors) THEN StrippedParts(sensors) ELSE sensors,
             tiers |-> tiers, slc |-> ~slcoff])

\* The values of --begin/--end and of --sensors/--tiers
Y2003 == <<"2", "0", "0", "3">>
DateOptions == {Y2003, <<"2", "0", "0", "3", "-", "0", "5", "-", "3", "1">>}
SensorOptions ==
    {PyNone, PyStr(<<>>), PyStr(LE07), PyStr(LC08 \o <<",">> \o LE07),
     PyStr(LC08 \o <<",", " ">> \o LE07 \o <<" ">>)}
TierOptions ==
    {PyNone, PyStr(<<>>), PyStr(T1), PyStr(T1 \o <<",">> \o T2),
     PyStr(<<" ">> \o T1 \o <<" ", ",", " ">> \o RT)}

CliInit ==
    /\ CatalogInit /\ BuilderIdle /\ ProductIdle /\ BandIdle
    /\ ResolverIdle /\ DownloadIdle /\ SceneIdle /\ QueryIdle /\ FileIdle
    /\ CliIdle

\* pylandsat search --begin ... --end ... [--sensors ...] [--tiers ...] [--slcoff]
CliSearch(begin, end, sensors, tiers, slcoff) ==
    /\ cliIn' = [begin |-> begin, end |-> end, sensors |-> sensors, tiers |-> tiers,
                 slcoff |-> slcoff]
    /\ cliOut' = cli_search(begin, end, sensors, tiers, slcoff)
    /\ UNCHANGED exceptCli

CliNext ==
    \E begin \in DateOptions : \E end \in DateOptions :
    \E sensors \in SensorOptions : \E tiers \in TierOptions : \E slcoff \in BOOLEAN :
        CliSearch(begin, end, sensors, tiers, slcoff)

SpecCli == CliInit /\ [][CliNext]_vars

(***************************************************************************)
(* Scene: the MTL file and Scene.__init__                                  *)
(*                                                                         *)
(* A line is the text of the line without its line terminator, which       *)
(* strip() removes; the parsed mapping is a function from group names to   *)
(* functions from parameter names to values.                               *)
(***************************************************************************)
\* str.startswith(prefix)
startswith(s, prefix) == Len(s) >= Len(prefix) /\ SubSeq(s, 1, Len(prefix)) = prefix

\* _to_numeric(value): an int when int() takes it, else the string
_to_numeric(value) == IF IsDigits(value) THEN PyInt(int(value)) ELSE PyStr(value)

GROUP == <<"G", "R", "O", "U", "P">>
END == <<"E", "N", "D">>
MainGroup == GROUP \o <<" ", "=", " ">>
                \o <<"L", "1", "_", "M", "E", "T", "A", "D", "A", "T", "A", "_", "F", "I", "L", "E">>

\* value.replace('"', '')
Unquote(value) == SelectSeq(value, LAMBDA c : c # "\"")

\* The state of the loop of _parse_mtl: the mapping so far, whether the
\* local `group` is bound and to what, and the exception raised if any.
ParseStart == [mtl |-> <<>>, bound |-> FALSE, group |-> <<>>, exc |-> "none"]

\* mtl[group][param] = value with the local `group` never assigned.
StoreParam_Lenient(st, param, value) ==
    IF ~st.bound THEN st
    ELSE [st EXCEPT !.mtl = (st.group :> ((param :> value) @@ st.mtl[st.group])) @@ st.mtl]

\* mtl[group][param] = value
StoreParam(st, param, value) ==
    IF ~st.bound THEN [st EXCEPT !.exc = "UnboundLocalError"]
    ELSE [st EXCEPT !.mtl = (st.group :> ((param :> value) @@ st.mtl[st.group])) @@ st.mtl]

\* One turn of the loop of _parse_mtl
ParseLine(st, line) ==
    IF startswith(line, MainGroup) THEN st
    ELSE IF startswith(strip(line), END) THEN st
    ELSE IF startswith(strip(line), GROUP)
    THEN LET parts == split(line, "=")
             group == strip(parts[Len(parts)])
         IN  [st EXCEPT !.mtl = (group :> <<>>) @@ st.mtl, !.bound = TRUE, !.group = group]
    ELSE LET parts == split(line, "=")
         IN  IF Len(parts) # 2 THEN [st EXCEPT !.exc = "ValueError"]
             ELSE StoreParam(st, strip(parts[1]), _to_numeric(Unquote(strip(parts[2]))))

RECURSIVE ParseLines(_, _)
\* for line in f.readlines(): ..., stopping at the first exception
ParseLines(st, lines) ==
    IF lines = <<>> \/ st.exc # "none" THEN st
    ELSE ParseLines(ParseLine(st, Head(lines)), Tail(lines))

\* Scene._parse_mtl()
_parse_mtl(lines) ==
    LET st == ParseLines(ParseStart, lines)
    IN  IF st.exc # "none" THEN Raise(st.exc) ELSE Ok(st.mtl)

\* Scene.__init__(scene_dir), for a directory whose MTL file has these lines
NewSceneObject(lines) ==
    LET mtl == _parse_mtl(lines)
    IN  IF mtl.status = "error" THEN mtl ELSE Ok([mtl |-> mtl.value])

\* The lines MTL files are made of here.
LineMain ==
    <<"G", "R", "O", "U", "P", " ", "=", " ", "L", "1", "_", "M", "E", "T", "A", "D", "A", "T", "A", "_", "F", "I", "L", "E">>
LineGroupProduct ==
    <<" ", " ", "G", "R", "O", "U", "P", " ", "=", " ", "P", "R", "O", "D", "U", "C", "T", "_", "M", "E", "T", "A", "D", "A", "T", "A">>
LineGroupImage ==
    <<" ", " ", "G", "R", "O", "U", "P", " ", "=", " ", "I", "M", "A", "G", "E", "_", "A", "T", "T", "R", "I", "B", "U", "T", "E", "S">>
LineSpacecraft ==
    <<" ", " ", " ", " ", "S", "P", "A", "C", "E", "C", "R", "A", "F", "T", "_", "I", "D", " ", "=", " ", "\"", "L", "A", "N", "D", "S", "A", "T", "_", "5", "\"">>
LineWrsPath ==
    <<" ", " ", " ", " ", "W", "R", "S", "_", "P", "A", "T", "H", " ", "=", " ", "3", "0">>
LineEndGroup ==
    <<" ", " ", "E", "N", "D", "_", "G", "R", "O", "U", "P", " ", "=", " ", "P", "R", "O", "D", "U", "C", "T", "_", "M", "E", "T", "A", "D", "A", "T", "A">>
LineEnd ==
    <<"E", "N", "D">>
LineBlank == <<>>
LineInputs ==
    {LineMain, LineGroupProduct, LineGroupImage, LineSpacecraft, LineWrsPath,
     LineEndGroup, LineEnd, LineBlank}

\* The largest number of lines of an MTL file.
MaxLines == 4

SceneInit ==
    /\ CatalogInit /\ BuilderIdle /\ ProductIdle /\ BandIdle
    /\ ResolverIdle /\ DownloadIdle /\ CliIdle /\ QueryIdle /\ FileIdle
    /\ mtlFile \in UNION {[1..n -> LineInputs] : n \in 1..MaxLines}
    /\ sceneObj = NoResult

\* Scene(scene_dir)
NewScene ==
    /\ sceneObj = NoResult
    /\ sceneObj' = NewSceneObject(mtlFile)
    /\ UNCHANGED <<mtlFile, exceptScene>>

SceneNext == NewScene

SpecScene == SceneInit /\ [][SceneNext]_vars

(***************************************************************************)
(* LandsatDB.query and its connection.  The database is the one the         *)
(* synchronisations fill; a call is a query template with its parameters,  *)
(* mod_spatialite being loadable or not.  conns lists every connection     *)
(* sqlite3.connect has opened, in order, with its state.                   *)
(***************************************************************************)
\* connect: sqlite3.connect(path) opens the connection, then the extension
\* is loaded; the load raises when mod_spatialite cannot be loaded.
connect(ext) == IF ext THEN Ok("conn") ELSE Raise("OperationalError")

\* query: what the call returns or raises
query_outcome(q, params, ext) ==
    IF connect(ext).status = "error" THEN connect(ext) ELSE query(q, params)

\* query: conn.close() is the statement after fetchall(); it is reached when
\* neither connect nor cursor.execute raised.
CloseReached(q, params, ext) == query_outcome(q, params, ext).status = "ok"

\* The state of the connection when the call ends
ConnAfter(q, params, ext) ==
    IF CloseReached(q, params, ext) THEN "closed" ELSE "open"

MaxConns == 3
PolygonWkt == wkt_dumps(PolygonGeom)
QueryInputs ==
    { <<WRS_SEARCH, <<PolygonWkt, PolygonWkt>>>>,
      <<WRS_SEARCH, <<PolygonWkt>>>>,
      <<WRS_SEARCH, <<>>>>,
      <<CATALOG_SEARCH_PRODUCT, <<PyStr(PidA1)>>>> }

QueryInit == Init

\* A call of LandsatDB.query(query, params)
Query(q, params, ext) ==
    /\ Len(conns) < MaxConns
    /\ qIn' = [op |-> "query", name |-> q.name, params |-> params, ext |-> ext]
    /\ qOut' = query_outcome(q, params, ext)
    /\ conns' = Append(conns, ConnAfter(q, params, ext))
    /\ UNCHANGED <<catalogVars, exceptQuery>>

\* The interpreter releases the connection object a raising call left behind,
\* which closes the connection.
Release(i) ==
    /\ conns[i] = "open"
    /\ conns' = [conns EXCEPT ![i] = "closed"]
    /\ UNCHANGED <<qIn, qOut, catalogVars, exceptQuery>>

QueryNext ==
    \/ \E csv \in CsvFiles : SyncCatalog(csv)
    \/ \E shp \in ShpFiles : SyncWrs(shp)
    \/ \E c \in QueryInputs, ext \in BOOLEAN : Query(c[1], c[2], ext)
    \/ \E i \in 1..Len(conns) : Release(i)

SpecQuery == QueryInit /\ [][QueryNext]_vars

(***************************************************************************)
(* download_file on one URL and one directory, called again and again.     *)
(* A file is the sequence of its bytes.  The remote file is RemoteBody;    *)
(* a response carries a status code, the Content-Length header or not,     *)
(* the ETag header (the MD5 of the remote file), and the bytes the         *)
(* transfer delivers, which may differ from the remote file, after which   *)
(* the transfer ends or breaks with an exception.                          *)
(***************************************************************************)
MaxBody == 2
Bytes == {1, 2}
Bodies == UNION {[1..n -> Bytes] : n \in 0..MaxBody}
RemoteBody == [i \in 1..MaxBody |-> 1]

RECURSIVE compute_md5(_)
\* compute_md5: a digest of the bytes of the file
compute_md5(body) ==
    IF body = <<>> THEN 7
    ELSE (compute_md5(SubSeq(body, 1, Len(body) - 1)) * 31 + body[Len(body)]) % 65521

\* The headers of the response: r.headers.get('Content-Length', 0), ETag
remotesize(r) == IF r.hasLength THEN Len(RemoteBody) ELSE 0
etag == compute_md5(RemoteBody)

\* open(fpath, 'wb') and the chunks written to it
Written(r) == [isfile |-> TRUE, body |-> r.delivered]

\* download_file(url, outdir, verify=verify), the response being r and the
\* file at fpath being file: the file afterwards, what the call returns or
\* raises, and whether it returned at the size test without downloading.
download_file(file, verify, r) ==
    IF r.status_code # 200
    THEN [file |-> file, out |-> Raise("HTTPError"), kept |-> FALSE]
    ELSE IF file.isfile /\ Len(file.body) = remotesize(r)
    THEN [file |-> file, out |-> Ok("fpath"), kept |-> TRUE]
    ELSE IF r.broken
    THEN [file |-> Written(r), out |-> Raise("ConnectionError"), kept |-> FALSE]
    ELSE IF verify /\ ~(compute_md5(Written(r).body) = etag)
    THEN [file |-> Written(r), out |-> Raise("HTTPError"), kept |-> FALSE]
    ELSE [file |-> Written(r), out |-> Ok("fpath"), kept |-> FALSE]

Responses ==
    [status_code : {200, 404}, hasLength : BOOLEAN, delivered : Bodies, broken : BOOLEAN]

\* Every call so far asked for verification
AlwaysVerified == fetch = NoCall \/ fetch.strict

FileInit == Init

\* A call of download_file on the URL and the directory
DownloadFile(verify, r) ==
    /\ LET d == download_file(localFile, verify, r)
       IN  /\ localFile' = d.file
           /\ fetch' = [op |-> "download_file", verify |-> verify, r |-> r,
                        out |-> d.out, kept |-> d.kept,
                        strict |-> verify /\ AlwaysVerified]
    /\ UNCHANGED exceptFile

FileNext == \E verify \in BOOLEAN, r \in Responses : DownloadFile(verify, r)

SpecFile == FileInit /\ [][FileNext]_vars

(***************************************************************************)
(* What a caller asked for, read off the arguments of the call             *)
(***************************************************************************)
\* A list argument is given when it is a non-empty list or tuple, or a single
\* value; None and the empty list give nothing.
Given(x) == x.t # "none" /\ (x.t \in {"list", "tuple"} => Len(x.v) > 0)

\* The values a given list argument names.
Requested(x) ==
    IF x.t \in {"list", "tuple"} THEN {x.v[i].v : i \in 1..Len(x.v)} ELSE {x.v}

RequestedSensors(c) == IF Given(c.sensors) THEN Requested(c.sensors) ELSE Range(SENSORS)
RequestedTiers(c) == IF Given(c.tiers) THEN Requested(c.tiers) ELSE {T1, T2, RT}

SearchReturned == pc = "returned" /\ call.op = "search"
SearchOk == SearchReturned /\ result.status = "ok"
ProductIds(recs) == {recs[i].product_id : i \in 1..Len(recs)}

\* C1: a search issues exactly one query, chosen by what is given: the
\* path/row query when a path list and a row list are both given (whether or
\* not a geometry is given too), otherwise the intersection query when a
\* geometry is given, otherwise no query at all and a ValueError.
C1_OneSpatialStrategy ==
    SearchReturned =>
        IF Given(call.path) /\ Given(call.row)
        THEN issued = <<"CATALOG_SEARCH_PATHROW">>
        ELSE IF call.geom.t # "none"
        THEN issued = <<"CATALOG_SEARCH_GEOM">>
        ELSE issued = <<>> /\ result = Raise("ValueError")

\* C1's case: path, row and geometry all given, the path/row query alone is
\* issued and finds scenes.
C1_Witness ==
    /\ SearchOk /\ Given(call.path) /\ Given(call.row) /\ call.geom.t # "none"
    /\ issued = <<"CATALOG_SEARCH_PATHROW">> /\ Len(result.value) > 0

\* A record of Landsat 7 sensed on or after 2003-05-31.
SlcOff(rec) == First4(rec.product_id) = LE07 /\ rec.sensing_time.day >= FailureDay

\* C2: with the slc flag set a search returns the records of its main query,
\* in order, without the LE07 records sensed on or after 2003-05-31; with
\* the flag unset it returns every record of the main query.
C2_SlcFilter ==
    SearchOk =>
        IF call.slc.v
        THEN result.value = SelectSeq(main, LAMBDA rec : ~SlcOff(rec))
        ELSE result.value = main

\* C2's case: the flag is set and the main query holds an LE07 record sensed
\* at 2003-05-31 00:00:00 (dropped), an earlier LE07 record and a later LT05
\* record (both kept).
C2_Witness ==
    /\ SearchOk /\ call.slc.v
    /\ \E i \in 1..Len(main) : SlcOff(main[i]) /\ main[i].sensing_time = FAILURE
    /\ PidA2 \notin ProductIds(result.value)
    /\ {PidA1, PidA4} \subseteq ProductIds(result.value)

\* A scene of the catalog with its grid cell passes the spatial, sensor and
\* tier filters of the call.
PassesSpatialSensorTier(j, c) ==
    /\ IF Given(c.path) /\ Given(c.row)
       THEN j.c.path \in Requested(c.path) /\ j.c.row \in Requested(c.row)
       ELSE Intersects(j.w.geom, c.geom.v)
    /\ First4(j.c.product_id) \in RequestedSensors(c)
    /\ Last2(j.c.product_id) \in RequestedTiers(c)

\* ... and the cloud-cover filter too, whatever its date.
PassesOtherFilters(j, c) ==
    /\ PassesSpatialSensorTier(j, c)
    /\ j.c.cloud_cover <= DefaultMaxcloud(c.maxcloud).v

SensingDay(j) == j.c.sensing_time \div SecondsPerDay

\* C3: begin and end given as calendar dates bound an inclusive range of
\* dates: with the SLC-off filter unset, a scene that passes the other
\* filters is returned if and only if its sensing date d has
\* begin <= d <= end.
C3_InclusiveDates ==
    (SearchOk /\ call.begin.t = "str" /\ call.end.t = "str" /\ ~call.slc.v) =>
        LET js == Join(catalog, wrs)
        IN  \A i \in 1..Len(js) :
                PassesOtherFilters(js[i], call) =>
                    (js[i].c.product_id \in ProductIds(result.value)
                        <=> (call.begin.v <= SensingDay(js[i])
                             /\ SensingDay(js[i]) <= call.end.v))

\* C4: when a cloud-cover limit is given, no returned scene has a cloud
\* cover above it, and a scene whose cloud cover equals it is not dropped by
\* the limit.
C4_CloudLimit ==
    (SearchOk /\ call.maxcloud.t # "none") =>
        /\ \A i \in 1..Len(result.value) :
               result.value[i].cloud_cover <= call.maxcloud.v
        /\ LET js == Join(catalog, wrs)
           IN  \A i \in 1..Len(js) :
                   (/\ js[i].c.cloud_cover = call.maxcloud.v
                    /\ PassesSpatialSensorTier(js[i], call)
                    /\ timestamp(strptime(call.begin).value) <= js[i].c.sensing_time
                    /\ js[i].c.sensing_time <= ToTimestamp(call.end).value.v)
                       => js[i].c.product_id \in ProductIds(main)

\* C5: every scene a path/row search returns has its path among the
\* requested paths, its row among the requested rows, the first four
\* characters of its product id among the requested sensors and the last two
\* among the requested tiers, the full sensor list and {T1, T2, RT} standing
\* in for sensors or tiers that are not given.
C5_PathRowResult ==
    (SearchOk /\ issued = <<"CATALOG_SEARCH_PATHROW">>) =>
        \A i \in 1..Len(result.value) :
            LET rec == result.value[i]
            IN  /\ rec.path \in Requested(call.path)
                /\ rec.row \in Requested(call.row)
                /\ First4(rec.product_id) \in RequestedSensors(call)
                /\ Last2(rec.product_id) \in RequestedTiers(call)

\* C5's case: a path/row search with sensors and tiers given returns scenes
\* while the catalog holds scenes of another sensor, tier, path and row.
C5_Witness ==
    /\ SearchOk /\ issued = <<"CATALOG_SEARCH_PATHROW">>
    /\ Given(call.sensors) /\ Given(call.tiers)
    /\ Len(result.value) > 0
    /\ \E i \in 1..Len(catalog) : First4(catalog[i].product_id) # LE07
    /\ \E i \in 1..Len(catalog) : Last2(catalog[i].product_id) = T2
    /\ \E i \in 1..Len(catalog) : catalog[i].row = 50

\* C5's second case: sensors and tiers are not given and the defaults apply.
C5_WitnessDefaults ==
    /\ SearchOk /\ issued = <<"CATALOG_SEARCH_PATHROW">>
    /\ ~Given(call.sensors) /\ ~Given(call.tiers)
    /\ Len(result.value) > 1

\* The records CATALOG_SEARCH_PRODUCT matches for a product identifier: the
\* pairs of a catalog row with that identifier and a grid cell of its path
\* and row.
ProductMatches(pid) ==
    {p \in (1..Len(catalog)) \X (1..Len(wrs)) :
        /\ catalog[p[1]].product_id = pid
        /\ wrs[p[2]].path = catalog[p[1]].path
        /\ wrs[p[2]].row = catalog[p[1]].row}

MetadataReturned == pc = "returned" /\ call.op = "metadata"

\* C7: metadata returns the record of the product identifier when exactly
\* one record matches it, and raises when none or several match; it never
\* returns one of several matches.
C7_MetadataSingle ==
    MetadataReturned =>
        IF Cardinality(ProductMatches(call.product_id)) = 1
        THEN /\ result.status = "ok"
             /\ result.value.product_id = call.product_id
             /\ \E p \in ProductMatches(call.product_id) :
                    /\ result.value.scene_id = catalog[p[1]].scene_id
                    /\ result.value.cloud_cover = catalog[p[1]].cloud_cover
                    /\ result.value.geom = wrs[p[2]].geom
        ELSE result.status = "error"

\* C7's case: the catalog holds several products, one of them matches and
\* is returned.
C7_Witness ==
    /\ MetadataReturned /\ result.status = "ok"
    /\ Len(catalog) > 1
    /\ result.value.product_id = call.product_id

\* C7's other case: the tables exist, nothing matches, IndexError is raised.
C7_WitnessNone ==
    /\ MetadataReturned /\ tables = {"catalog", "wrs"}
    /\ ProductMatches(call.product_id) = {}
    /\ result = Raise("IndexError")

WrsOk == pc = "returned" /\ call.op = "wrs" /\ result.status = "ok"
IsArea(g) == g.kind \in {"POLYGON", "MULTIPOLYGON"}

\* C8: wrs returns every grid cell whose footprint intersects the geometry,
\* and each returned cell carries a coverage value exactly when the geometry
\* is not an area.
C8_WrsCoverage ==
    WrsOk =>
        /\ {<<result.value[i].path, result.value[i].row>> : i \in 1..Len(result.value)}
             = {<<wrs[k].path, wrs[k].row>> :
                    k \in {n \in 1..Len(wrs) : wrs[n].geom.pts \cap call.geom.pts # {}}}
        /\ \A i \in 1..Len(result.value) :
               ("cover" \in DOMAIN result.value[i]) <=> ~IsArea(call.geom)

\* What the code does instead: the coverage is there exactly when the
\* geometry is an area.
C8_CoverageOfAreas ==
    WrsOk =>
        /\ {<<result.value[i].path, result.value[i].row>> : i \in 1..Len(result.value)}
             = {<<wrs[k].path, wrs[k].row>> :
                    k \in {n \in 1..Len(wrs) : wrs[n].geom.pts \cap call.geom.pts # {}}}
        /\ \A i \in 1..Len(result.value) :
               ("cover" \in DOMAIN result.value[i]) <=> IsArea(call.geom)

(***************************************************************************)
(* The query builder's claims                                              *)
(***************************************************************************)
Built == bOut # NoResult
ListPositions == {i \in 1..Len(bIn.params) : bIn.params[i].t = "list"}
InPositions == {i \in 1..Len(bIn.query) : bIn.query[i] = INQ}
ListsMatchSites == Cardinality(ListPositions) = Cardinality(InPositions)
ScalarsMatchSites ==
    Len(bIn.params) - Cardinality(ListPositions)
        = Len(bIn.query) - Cardinality(InPositions)

\* The k-th smallest element of a set of numbers.
Nth(S, k) == CHOOSE x \in S : Cardinality({y \in S : y < x}) = k - 1

\* The number of values parameter i contributes to the flattened sequence,
\* and the number contributed by the parameters before it.
Width(i) == IF bIn.params[i].t = "list" THEN Len(bIn.params[i].v) ELSE 1
RECURSIVE Before(_)
Before(i) == IF i = 1 THEN 0 ELSE Before(i - 1) + Width(i - 1)

\* The i-th 'IN ?' site holds as many placeholders as the i-th list has
\* elements, and every other placeholder is as the template has it.
SitesExpanded ==
    /\ Len(bOut.query) = Len(bIn.query)
    /\ \A k \in 1..Cardinality(InPositions) :
           bOut.query[Nth(InPositions, k)]
               = INn(Len(bIn.params[Nth(ListPositions, k)].v))
    /\ \A j \in (1..Len(bIn.query)) \ InPositions : bOut.query[j] = Q

\* The flattened sequence holds every scalar and every list element, in the
\* order given.
OrderKept ==
    /\ Len(bOut.params) = (IF bIn.params = <<>> THEN 0
                           ELSE Before(Len(bIn.params)) + Width(Len(bIn.params)))
    /\ \A i \in 1..Len(bIn.params) :
           IF bIn.params[i].t = "list"
           THEN \A e \in 1..Width(i) : bOut.params[Before(i) + e] = bIn.params[i].v[e]
           ELSE bOut.params[Before(i) + 1] = bIn.params[i]

\* C6, as stated: with as many list parameters as 'IN ?' sites, the sites
\* are expanded, the order is kept and the built query has as many
\* placeholders as the flattened sequence has values.
C6_AsStated ==
    (Built /\ ListsMatchSites) =>
        /\ SitesExpanded
        /\ OrderKept
        /\ NPlaceholders(bOut.query) = Len(bOut.params)

\* C6, amended: with as many list parameters as 'IN ?' sites, the sites are
\* expanded and the order is kept; the built query has as many placeholders
\* as the flattened sequence has values when there are also as many scalar
\* parameters as plain placeholders.
C6_FormatPlaceholders ==
    (Built /\ ListsMatchSites) =>
        /\ SitesExpanded
        /\ OrderKept
        /\ ScalarsMatchSites => NPlaceholders(bOut.query) = Len(bOut.params)

\* C6's case: two 'IN ?' sites around a plain placeholder, two lists of
\* different lengths and a scalar between them.
C6_Witness ==
    /\ Built /\ ListsMatchSites /\ ScalarsMatchSites
    /\ bIn.query = <<INQ, Q, INQ>>
    /\ Len(bIn.params) = 3
    /\ bIn.params[1].t = "list" /\ bIn.params[2].t = "int" /\ bIn.params[3].t = "list"
    /\ Len(bIn.params[1].v) = 2 /\ Len(bIn.params[3].v) = 1
    /\ bOut.query = <<INn(2), Q, INn(1)>>
    /\ Len(bOut.params) = 4

(***************************************************************************)
(* Product identifiers                                                     *)
(***************************************************************************)
\* A valid product identifier: seven fields, the third of six digits, the
\* fourth and fifth calendar dates of eight digits, the sixth of two digits.
WellFormedPid(pid) ==
    LET parts == split(pid, "_")
    IN  /\ Len(parts) = 7
        /\ Len(parts[3]) = 6 /\ IsDigits(parts[3])
        /\ strptime_Ymd(parts[4]).status = "ok"
        /\ strptime_Ymd(parts[5]).status = "ok"
        /\ Len(parts[6]) = 2 /\ IsDigits(parts[6])

DateString(d) == ZeroPad(d.year, 4) \o ZeroPad(d.month, 2) \o ZeroPad(d.day, 2)

\* SENSOR_CORRECTION_PPPRRR_YYYYMMDD_YYYYMMDD_CC_TIER
Restringify(meta) ==
    Concat(<<meta.sensor, U, meta.correction, U,
             ZeroPad(meta.path, 3) \o ZeroPad(meta.row, 3), U,
             DateString(meta.acquisition_date), U,
             DateString(meta.processing_date), U,
             ZeroPad(meta.collection, 2), U, meta.tier>>)

ExamplePid == Pid(LC08, L1GT, P044034, A20130330, A20170310, Coll01, T2)

\* C9: for every valid 7-field product identifier, meta_from_pid yields
\* fields that, written back as SENSOR_CORRECTION_PPPRRR_YYYYMMDD_YYYYMMDD_CC_TIER
\* with path and row padded to 3 digits and the collection to 2, give the
\* identifier back; LC08_L1GT_044034_20130330_20170310_01_T2 yields sensor
\* LC08, path 44, row 34, collection 1 and tier T2.
C9_PidRoundTrip ==
    (product # NoResult /\ WellFormedPid(pidIn)) =>
        /\ product.status = "ok"
        /\ Restringify(product.value.meta) = pidIn
        /\ pidIn = ExamplePid =>
              /\ product.value.meta.sensor = LC08
              /\ product.value.meta.path = 44
              /\ product.value.meta.row = 34
              /\ product.value.meta.collection = 1
              /\ product.value.meta.tier = T2

C9_Witness ==
    /\ product # NoResult /\ product.status = "ok"
    /\ WellFormedPid(pidIn) /\ pidIn = ExamplePid
    /\ product.value.meta.path = 44 /\ product.value.meta.row = 34

(***************************************************************************)
(* Conversions of a band                                                   *)
(***************************************************************************)
\* The thermal bands of each sensor, by file suffix.
Thermal(b) ==
    \/ b.sensor = "TM" /\ b.suffix = <<"B", "6">>
    \/ b.sensor = "ETM" /\ b.suffix \in {<<"B", "6", "_", "V", "C", "I", "D", "_", "1">>,
                                         <<"B", "6", "_", "V", "C", "I", "D", "_", "2">>}
    \/ b.sensor = "OLI_TIRS" /\ b.suffix \in {<<"B", "1", "0">>, <<"B", "1", "1">>}

Rejected == conv.out.result = Raise("ValueError")

\* C10: for every band, to_reflectance is rejected exactly when the band is
\* thermal and to_brightness_temperature exactly when it is not, so one of
\* the two and only one is rejected for any band; a rejection comes before
\* any raster read and yields no value.
C10_ThermalGuards ==
    conv # NoResult =>
        /\ conv.op = "to_reflectance" =>
              /\ Rejected <=> Thermal(band)
              /\ Rejected => conv.out.reads = 0
        /\ conv.op = "to_brightness_temperature" =>
              /\ Rejected <=> ~Thermal(band)
              /\ Rejected => conv.out.reads = 0

C10_Witness ==
    /\ conv # NoResult /\ conv.op = "to_brightness_temperature"
    /\ ~conv.custom_dn /\ ~Thermal(band)
    /\ Rejected /\ conv.out.reads = 0

C10_WitnessThermal ==
    /\ conv # NoResult /\ conv.op = "to_reflectance"
    /\ ~conv.custom_dn /\ Thermal(band)
    /\ Rejected /\ conv.out.reads = 0

(***************************************************************************)
(* Band resolver                                                           *)
(***************************************************************************)
B6_VCID_1 == <<"B", "6", "_", "V", "C", "I", "D", "_", "1">>
B6_VCID_2 == <<"B", "6", "_", "V", "C", "I", "D", "_", "2">>
RoundTripSuffixes == {<<"B">> \o Digits(n) : n \in 1..11} \cup {B6_VCID_1, B6_VCID_2}
RoundTripBnums == (1..11) \cup {61, 62}

\* C11: for every suffix in B1..B11, B6_VCID_1, B6_VCID_2 the suffix of its
\* band number is the suffix itself; for every band number in 1..11, 61, 62
\* the band number of its suffix is the number itself; B6_VCID_1 and
\* B6_VCID_2 have the band numbers 61 and 62.
C11_SuffixBnumRoundTrip ==
    resIn # NoCall =>
        /\ (resIn.f = "_suffix_from_bnum" /\ resIn.chained
                /\ resIn.origin \in RoundTripSuffixes)
              => resOut = Ok(resIn.origin)
        /\ (resIn.f = "_band_number" /\ resIn.chained
                /\ resIn.origin \in RoundTripBnums)
              => resOut = Ok(resIn.origin)
        /\ (resIn.f = "_band_number" /\ ~resIn.chained /\ resIn.arg = B6_VCID_1)
              => resOut = Ok(61)
        /\ (resIn.f = "_band_number" /\ ~resIn.chained /\ resIn.arg = B6_VCID_2)
              => resOut = Ok(62)

C11_Witness ==
    /\ resIn # NoCall /\ resIn.f = "_suffix_from_bnum" /\ resIn.chained
    /\ resIn.origin = B6_VCID_2 /\ resIn.arg = 62 /\ resOut = Ok(B6_VCID_2)

C11_WitnessBnum ==
    /\ resIn # NoCall /\ resIn.f = "_band_number" /\ resIn.chained
    /\ resIn.origin = 61 /\ resIn.arg = B6_VCID_1 /\ resOut = Ok(61)

\* Whether a band of the sensor has the name as its long or its short name.
Declares(sensor, i, band_name) ==
    band_name \in {BANDS[sensor][i].long_name, _band_shortname(BANDS[sensor][i].long_name)}

\* C12: _suffix_from_name raises when the sensor is not in the band table and
\* when no band of the sensor has the name as long or short name; a suffix it
\* returns is declared for the sensor with that long or short name.
C12_NoDefaultSuffix ==
    (resIn # NoCall /\ resIn.f = "_suffix_from_name") =>
        /\ resIn.sensor \notin DOMAIN BANDS => resOut = Raise("ValueError")
        /\ (/\ resIn.sensor \in DOMAIN BANDS
            /\ \A i \in 1..Len(BANDS[resIn.sensor]) :
                   ~Declares(resIn.sensor, i, resIn.band_name))
              => resOut = Raise("ValueError")
        /\ resOut.status = "ok" =>
              /\ resIn.sensor \in DOMAIN BANDS
              /\ \E i \in 1..Len(BANDS[resIn.sensor]) :
                     /\ BANDS[resIn.sensor][i].suffix = resOut.value
                     /\ Declares(resIn.sensor, i, resIn.band_name)

C12_Witness ==
    /\ resIn # NoCall /\ resIn.f = "_suffix_from_name"
    /\ resIn.sensor = "TM" /\ resIn.band_name = <<"c", "i", "r", "r", "u", "s">>
    /\ resOut = Raise("ValueError")

C12_WitnessFound ==
    /\ resIn # NoCall /\ resIn.f = "_suffix_from_name"
    /\ resIn.sensor = "TM" /\ resIn.band_name = <<"r", "e", "d">>
    /\ resOut = Ok(<<"B", "3">>)

C12_WitnessSensor ==
    /\ resIn # NoCall /\ resIn.f = "_suffix_from_name"
    /\ resIn.sensor = "OLI" /\ resOut = Raise("ValueError")

(***************************************************************************)
(* Download of a product                                                   *)
(***************************************************************************)
\* C13: Product.download can be called with MD5 verification disabled and no
\* file list; when it completes, out_dir/<product_id> exists and holds a file
\* <product_id>_<label> for every label available for the sensor, whatever
\* the content downloaded.
C13_DownloadUnverified ==
    (dl # NoCall /\ "verify" \in dl.kwargs /\ dl.files = PyNone) =>
        /\ dl.out # Raise("TypeError")
        /\ dl.out.status = "ok" =>
              /\ product.value.product_id \in outdir.dirs
              /\ \A label \in Range(available(product.value).value) :
                     (product.value.product_id \o U \o label) \in outdir.files

(***************************************************************************)
(* Command line                                                            *)
(***************************************************************************)
\* C14: given a comma-separated --tiers value, the search command completes
\* without error and hands Catalog.search the list of the tier names with the
\* blanks around them stripped, as it does for --sensors.
C14_CliTiers ==
    (cliIn # NoCall /\ OptionGiven(cliIn.tiers)) =>
        /\ cliOut.status = "ok"
        /\ cliOut.value.tiers = StrippedParts(cliIn.tiers)

(***************************************************************************)
(* The query builder's failures                                            *)
(***************************************************************************)
\* The builder, or LandsatDB.query before cursor.execute, raised.
BuilderRaised == "exc" \in DOMAIN bOut
\* The query went to cursor.execute.
HandedToDatastore == "executed" \in DOMAIN bOut

\* C15: when the number of list parameters differs from the number of 'IN ?'
\* sites, the builder raises before the query is executed: no query with an
\* unexpanded or wrongly expanded IN site reaches the datastore.
C15_MismatchReported ==
    (Built /\ ~ListsMatchSites) => (BuilderRaised /\ ~HandedToDatastore)

\* C16: for a list parameter of length zero the builder never produces a
\* bare 'IN ()': it raises, or the clause it writes is another one.
C16_NoBareEmptyIn ==
    Built => (BuilderRaised \/ \A i \in 1..Len(bOut.query) : bOut.query[i] # INn(0))

(***************************************************************************)
(* The MTL file                                                            *)
(***************************************************************************)
\* What each line of the files is, read off its text.
OpensGroup(line) == line \in {LineMain, LineGroupProduct, LineGroupImage}
IsEndLine(line) == line \in {LineEndGroup, LineEnd}
IsKeyValue(line) == line \in {LineSpacecraft, LineWrsPath}
GroupName(line) ==
    IF line = LineMain
    THEN <<"L", "1", "_", "M", "E", "T", "A", "D", "A", "T", "A", "_", "F", "I", "L", "E">>
    ELSE IF line = LineGroupProduct
    THEN <<"P", "R", "O", "D", "U", "C", "T", "_", "M", "E", "T", "A", "D", "A", "T", "A">>
    ELSE <<"I", "M", "A", "G", "E", "_", "A", "T", "T", "R", "I", "B", "U", "T", "E", "S">>
KeyOf(line) ==
    IF line = LineSpacecraft
    THEN <<"S", "P", "A", "C", "E", "C", "R", "A", "F", "T", "_", "I", "D">>
    ELSE <<"W", "R", "S", "_", "P", "A", "T", "H">>
ValueOf(line) ==
    IF line = LineSpacecraft
    THEN PyStr(<<"L", "A", "N", "D", "S", "A", "T", "_", "5">>)
    ELSE PyInt(30)

\* A key=value line with no line opening a GROUP before it.
KeyValueBeforeGroup ==
    \E i \in 1..Len(mtlFile) :
        /\ IsKeyValue(mtlFile[i])
        /\ \A j \in 1..(i - 1) : ~OpensGroup(mtlFile[j])

\* The group open at line i: the one the last GROUP line before it opened.
OpenAt(i) ==
    GroupName(mtlFile[Max({j \in 1..(i - 1) : OpensGroup(mtlFile[j])})])

SceneMade == sceneObj # NoResult

\* C17: an MTL file with a key=value line before any GROUP is opened makes
\* the parse fail, and with it the construction of the Scene: no Scene with a
\* partly filled mapping is returned.
C17_KeyBeforeGroupFails ==
    (SceneMade /\ KeyValueBeforeGroup) => sceneObj.status = "error"

C17_Witness ==
    /\ SceneMade /\ KeyValueBeforeGroup
    /\ Len(mtlFile) >= 2 /\ mtlFile[1] = LineSpacecraft /\ mtlFile[2] = LineGroupProduct
    /\ sceneObj = Raise("UnboundLocalError")

\* C18: _parse_mtl returns a two-level mapping: every line opening a GROUP
\* gives a top-level key, END lines and blank lines are passed over, every
\* other line is a key=value pair kept under the group open at that line, and
\* no key lies under another group.
C18_Grouping ==
    (SceneMade /\ ~KeyValueBeforeGroup) =>
        /\ sceneObj.status = "ok"
        /\ \A i \in 1..Len(mtlFile) :
               OpensGroup(mtlFile[i]) => GroupName(mtlFile[i]) \in DOMAIN sceneObj.value.mtl
        /\ \A i \in 1..Len(mtlFile) :
               (/\ IsKeyValue(mtlFile[i])
                /\ \A j \in (i + 1)..Len(mtlFile) :
                       ~(OpensGroup(mtlFile[j]) /\ GroupName(mtlFile[j]) = OpenAt(i)))
                  => /\ KeyOf(mtlFile[i]) \in DOMAIN sceneObj.value.mtl[OpenAt(i)]
                     /\ sceneObj.value.mtl[OpenAt(i)][KeyOf(mtlFile[i])] = ValueOf(mtlFile[i])
        /\ \A g \in DOMAIN sceneObj.value.mtl : \A k \in DOMAIN sceneObj.value.mtl[g] :
               \E i \in 1..Len(mtlFile) :
                   /\ IsKeyValue(mtlFile[i]) /\ KeyOf(mtlFile[i]) = k
                   /\ OpenAt(i) = g

(***************************************************************************)
(* The default of the cloud-cover limit                                    *)
(***************************************************************************)
\* The limit the claim has the query use: the one supplied, 100 when none is.
ClaimedLimit(c) == IF c.maxcloud.t = "none" THEN 100 ELSE c.maxcloud.v

\* C19: the query of a search uses the cloud-cover limit the caller supplies,
\* a limit of zero given as 0 or as 0.0 included, and 100.0 only when none is
\* supplied: the records the query returns are the scenes within the other
\* filters whose cloud cover is at most that limit.
C19_CloudDefault ==
    SearchOk =>
        LET js == Join(catalog, wrs)
        IN  ProductIds(main) =
                {js[i].c.product_id :
                    i \in {k \in 1..Len(js) :
                              /\ PassesSpatialSensorTier(js[k], call)
                              /\ timestamp(strptime(call.begin).value) <= js[k].c.sensing_time
                              /\ js[k].c.sensing_time <= ToTimestamp(call.end).value.v
                              /\ js[k].c.cloud_cover <= ClaimedLimit(call)}}



(***************************************************************************)
(* Re-synchronising the grid cells                                         *)
(***************************************************************************)
\* The records of a table, without their order
Records(table) == {table[i] : i \in 1..Len(table)}

\* (path, row) identifies at most one record of the table
UniqueCells(table) ==
    \A i, j \in 1..Len(table) :
        (table[i].path = table[j].path /\ table[i].row = table[j].row) => i = j

\* A step that imports the shapefile into a table that already holds cells
Resync(shp) == wrs # <<>> /\ SyncWrs(shp)

\* C20: after sync_wrs runs on a database that already holds grid cells, the
\* table wrs holds exactly the records of the newly imported shapefile, no
\* footprint of the earlier import surviving where the new data differs, and
\* (path, row) still identifies at most one footprint.
C20_WholesaleRefresh ==
    [][\A shp \in ShpFiles :
           Resync(shp) => /\ Records(wrs') = Records(ImportWrs(<<>>, shp))
                          /\ UniqueCells(wrs')]_vars

\* The part of C20 that the table's primary key upholds
C20_UniqueCells == UniqueCells(wrs)

\* A re-synchronisation with the same shapefile leaves the table as the claim
\* says; only one with different data diverges.
C20_SameDataRefreshed ==
    [][\A shp \in ShpFiles :
           (Resync(shp) /\ Records(wrs) = Records(ImportWrs(<<>>, shp)))
               => Records(wrs') = Records(ImportWrs(<<>>, shp))]_vars

\* The cells after importing ShpA and then ShpB
C20_BothImported == Records(wrs) = Records(ImportWrs(ImportWrs(<<>>, ShpA), ShpB))


(***************************************************************************)
(* Scene records after their import                                        *)
(***************************************************************************)
\* The table starts with the records of the table before, unchanged
KeepsRecords(before, after) ==
    /\ Len(before) <= Len(after)
    /\ \A i \in 1..Len(before) : after[i] = before[i]

\* Product identifiers are unique in the table
UniqueProducts(table) ==
    \A i, j \in 1..Len(table) : table[i].product_id = table[j].product_id => i = j

\* The record is what the first row of the file with its identifier parses to
FirstImportOf(rec, csv) ==
    \E k \in 1..Len(csv) :
        /\ csv[k].product_id = rec.product_id
        /\ \A n \in 1..(k - 1) : csv[n].product_id # rec.product_id
        /\ rec = _parse_row(csv[k])

\* C21: scene records are immutable once imported.  In every step (a
\* sync_catalog, a search, a wrs or a metadata call) every record of the
\* catalog keeps its place and its field values and none is removed; product
\* identifiers stay unique; the records a sync adds have identifiers that
\* were not present, with the values of their first row in the file; and no
\* record has an empty product identifier.
C21_ImmutableRecords ==
    [][/\ KeepsRecords(catalog, catalog')
       /\ UniqueProducts(catalog')
       /\ \A i \in 1..Len(catalog') : catalog'[i].product_id # <<>>
       /\ \A i \in (Len(catalog) + 1)..Len(catalog') :
              /\ catalog'[i].product_id \notin ProductIds(catalog)
              /\ \E csv \in CsvFiles : FirstImportOf(catalog'[i], csv)
       /\ (pc = "idle" /\ pc' = "returned") => catalog' = catalog]_vars

\* C21's case: the second edition of index.csv was imported after the first;
\* its new product was added after the five of the first edition, the
\* product it repeats keeps the cloud cover of the first edition, and the
\* row without identifier was not imported.
C21_Witness ==
    /\ Len(catalog) = 6
    /\ catalog[6].product_id = PidB1
    /\ catalog[1].product_id = PidA1 /\ catalog[1].cloud_cover = 10
    /\ pc = "returned" /\ call.op = "search" /\ result.status = "ok"


(***************************************************************************)
(* The connection of a query call                                          *)
(***************************************************************************)
\* The step is a call of LandsatDB.query
QueryCalled == \E c \in QueryInputs, ext \in BOOLEAN : Query(c[1], c[2], ext)

\* C22: every LandsatDB.query call opens exactly one connection and that
\* connection is closed when the call ends, whether the call returns rows or
\* raises; when a call has ended no connection of a finished call is open.
C22_ConnectionClosed ==
    [][QueryCalled => /\ Len(conns') = Len(conns) + 1
                      /\ conns'[Len(conns')] = "closed"]_vars

\* The part of C22 that holds: a call opens exactly one connection, and the
\* connection of a call that returns rows is closed.
C22_ClosedOnReturn ==
    [][QueryCalled => /\ Len(conns') = Len(conns) + 1
                      /\ (qOut'.status = "ok" => conns'[Len(conns')] = "closed")]_vars

\* A call returned rows, and an earlier call raised
C22_Returned ==
    /\ qOut.status = "ok" /\ qOut.value # <<>>
    /\ Len(conns) >= 2 /\ conns[Len(conns)] = "closed"


(***************************************************************************)
(* The file a verified download returns                                    *)
(***************************************************************************)
\* download_file has returned a path, this call and every call before it on
\* the URL and the directory having asked for verification
VerifiedReturn ==
    /\ fetch.op = "download_file" /\ fetch.out.status = "ok"
    /\ fetch.verify /\ fetch.strict

\* C23: whenever download_file called with verify=True returns a path, in
\* any sequence of calls on the same URL and directory, a retry after a
\* failed verification or an interrupted call included, the MD5 digest of
\* the local file equals the remote ETag.
C23_VerifiedDigest == VerifiedReturn => compute_md5(localFile.body) = etag

\* The part of C23 that holds: a call that downloads the file and returns has
\* verified what it wrote.
C23_VerifiedWhenWritten ==
    (VerifiedReturn /\ ~fetch.kept) => compute_md5(localFile.body) = etag

\* A retry that found a file of the remote size and returned it
C23_Retried == VerifiedReturn /\ fetch.kept

=============================================================================
